---- MODULE Spec2Model ----
\* A model of knirvbase (rust): vector clocks (clock.rs), the CRDT resolver
\* (resolver.rs), the file storage (storage.rs), the network manager
\* (network.rs) and the distributed collection (collection.rs).
EXTENDS Integers, Sequences, FiniteSets, TLC

\* ---------------------------------------------------------------- bounds

\* Largest counter of a vector clock drawn as an input of the resolver.
MaxCounter == 2

\* ------------------------------------------------------------ universes

Peers == {"a-1", "b-1"}

Keys == {"k1", "k2"}

Values == {1, 2}

\* Option<T>: [some |-> TRUE, val |-> x] or None (val holds a filler).
EmptyMap == [k \in {} |-> 0]

Some(x) == [some |-> TRUE, val |-> x]

NonePayload == [some |-> FALSE, val |-> EmptyMap]

NoneStage == [some |-> FALSE, val |-> ""]

\* ------------------------------------------------------- clock.rs

\* self.0.get(key).copied().unwrap_or(0)
Get(v, k) == IF k \in DOMAIN v THEN v[k] ELSE 0

\* VectorClock::new
NewClock == [k \in {} |-> 0]

\* An increment that restarts the counter at 1.
increment_reset(self, peer_id) ==
    [k \in DOMAIN self \cup {peer_id} |-> IF k = peer_id THEN 1 ELSE self[k]]

\* VectorClock::increment: entry(peer_id).or_insert(0) += 1
increment(self, peer_id) ==
    [k \in DOMAIN self \cup {peer_id} |->
        IF k = peer_id THEN Get(self, peer_id) + 1 ELSE self[k]]

\* A merge that forgets the other clock (the bug the dominance claims catch).
merge_keep_self(self, other) == self

\* VectorClock::merge: start from self; for every (k, v) of other the entry
\* (or_insert(0)) is raised to v when v is greater.
merge(self, other) ==
    [k \in DOMAIN self \cup DOMAIN other |->
        IF k \in DOMAIN other
        THEN (IF other[k] > Get(self, k) THEN other[k] ELSE Get(self, k))
        ELSE self[k]]

\* VectorClock::compare
\* A comparison that looks at the keys of self only.
compare_own_keys(self, other) ==
    LET has_greater == \E k \in DOMAIN self : self[k] > Get(other, k)
        has_less == \E k \in DOMAIN self : self[k] < Get(other, k)
    IN  IF has_greater /\ has_less THEN "Concurrent"
        ELSE IF has_greater THEN "After"
        ELSE IF has_less THEN "Before"
        ELSE "Equal"

compare(self, other) ==
    LET all_keys == DOMAIN self \cup DOMAIN other
        has_greater == \E k \in all_keys : Get(self, k) > Get(other, k)
        has_less == \E k \in all_keys : Get(self, k) < Get(other, k)
    IN  CASE ~has_greater /\ ~has_less -> "Equal"
          [] has_greater /\ ~has_less -> "After"
          [] ~has_greater /\ has_less -> "Before"
          [] has_greater /\ has_less -> "Concurrent"

\* VectorClock::happens_before
happens_before(self, other) == compare(self, other) \in {"Before", "Equal"}

\* ------------------------------------------------------- resolver.rs

\* max of two timestamps (std::cmp::max)
Max(x, y) == IF x >= y THEN x ELSE y

\* The payload loop of the Concurrent arm: merged_payload starts as the local
\* payload and every (key, value) of the remote payload is inserted over it.
MergePayload(local_payload, remote_payload) ==
    [k \in DOMAIN local_payload \cup DOMAIN remote_payload |->
        IF k \in DOMAIN remote_payload THEN remote_payload[k] ELSE local_payload[k]]

\* CRDTResolver::merge_documents
merge_documents(local, remote) ==
    LET c == compare(local.vector, remote.vector)
    IN  IF c \in {"Equal", "Before"} THEN remote
        ELSE IF c = "After" THEN local
        ELSE [local EXCEPT
                !.payload = IF local.payload.some /\ remote.payload.some
                            THEN Some(MergePayload(local.payload.val, remote.payload.val))
                            ELSE local.payload,
                !.vector = merge(local.vector, remote.vector),
                !.timestamp = Max(local.timestamp, remote.timestamp)]

\* The position sort_by gives x in a sequence already sorted by descending
\* timestamp: after the elements whose timestamp is not smaller (the sort is
\* stable).
InsertDesc(sorted, x) ==
    LET n == Cardinality({i \in DOMAIN sorted : sorted[i].timestamp >= x.timestamp})
    IN  SubSeq(sorted, 1, n) \o <<x>> \o SubSeq(sorted, n + 1, Len(sorted))

RECURSIVE SortByTimestampDesc(_)
\* resolved.sort_by(|a, b| b.timestamp.cmp(&a.timestamp))
SortByTimestampDesc(ops) ==
    IF ops = <<>> THEN <<>>
    ELSE InsertDesc(SortByTimestampDesc(SubSeq(ops, 1, Len(ops) - 1)), ops[Len(ops)])

RECURSIVE DedupByDocument(_, _)
\* resolved.dedup_by(|a, b| a.document_id == b.document_id): an element is
\* dropped when its document id is that of the element retained just before.
DedupByDocument(kept, rest) ==
    IF rest = <<>> THEN kept
    ELSE IF kept # <<>> /\ rest[1].document_id = kept[Len(kept)].document_id
    THEN DedupByDocument(kept, Tail(rest))
    ELSE DedupByDocument(Append(kept, rest[1]), Tail(rest))

\* CRDTResolver::resolve_conflicts
resolve_conflicts(operations) == DedupByDocument(<<>>, SortByTimestampDesc(operations))

\* ------------------------------------------- inputs of the resolver

\* Vector clocks over Peers with counters 0..MaxCounter; a key may be absent
\* (read as 0) or hold an explicit 0.
Clocks ==
    UNION {[D -> 0..MaxCounter] : D \in SUBSET Peers}

\* Payloads: none, or a map from some of the keys to values.
Payloads ==
    {NonePayload} \cup {Some(m) : m \in UNION {[D -> Values] : D \in SUBSET Keys}}

\* The authoring data of a version: entry type, timestamp and author.
Profiles ==
    {[entry_type |-> "Memory", timestamp |-> 1, peer_id |-> "a-1"],
     [entry_type |-> "Auth", timestamp |-> 2, peer_id |-> "b-1"]}

\* DistributedDocument (types.rs), for one document id.
MkDoc(prof, payload, vector, deleted) ==
    [id |-> "d1", entry_type |-> prof.entry_type, payload |-> payload,
     vector |-> vector, timestamp |-> prof.timestamp, peer_id |-> prof.peer_id,
     stage |-> NoneStage, deleted |-> deleted]

Versions ==
    {MkDoc(prof, pl, v, del) :
        prof \in Profiles, pl \in Payloads, v \in Clocks, del \in BOOLEAN}

\* The literal versions of the concurrent-merge scenario.
LitA ==
    MkDoc([entry_type |-> "Memory", timestamp |-> 1, peer_id |-> "a-1"],
          Some([k1 |-> 1, k2 |-> 99]), [x \in {"a-1", "b-1"} |-> IF x = "a-1" THEN 2 ELSE 1], FALSE)

LitB ==
    MkDoc([entry_type |-> "Memory", timestamp |-> 1, peer_id |-> "b-1"],
          Some([k1 |-> 42, k2 |-> 2]), [x \in {"a-1", "b-1"} |-> IF x = "a-1" THEN 1 ELSE 2], FALSE)

\* ------------------------------------------------------- types.rs

NetIds == {"n1"}

\* The collection every peer opens (a non-sensitive collection).
CollName == "mem"

DocIds == {"d1"}

NoneNet == [some |-> FALSE, val |-> ""]

NoneDoc == [some |-> FALSE, val |-> EmptyMap]

\* serde_json::to_value(&DistributedDocument): payload and stage are skipped
\* when None, deleted is skipped when false; the field names are the struct's.
ToStorageMap(d) ==
    LET keys == {"id", "entry_type", "vector", "timestamp", "peer_id"}
                \cup (IF d.payload.some THEN {"payload"} ELSE {})
                \cup (IF d.stage.some THEN {"stage"} ELSE {})
                \cup (IF d.deleted THEN {"deleted"} ELSE {})
    IN  [k \in keys |->
            CASE k = "id" -> d.id
              [] k = "entry_type" -> d.entry_type
              [] k = "vector" -> d.vector
              [] k = "timestamp" -> d.timestamp
              [] k = "peer_id" -> d.peer_id
              [] k = "payload" -> d.payload.val
              [] k = "stage" -> d.stage.val
              [] k = "deleted" -> TRUE]

\* ------------------------------------------------------- crypto/pqc.rs

\* The 32-byte strings getrandom can fill a key with (two of them).
KeyMaterial == {1, 2}

NoExpiry == [some |-> FALSE, val |-> 0]

\* PQCKeyPair: the fields that decide what the key does.
KeyPair(id, status, expires_at, public_key, private_key) ==
    [id |-> id, status |-> status, expires_at |-> expires_at,
     public_key |-> public_key, private_key |-> private_key]

NoneKey == [some |-> FALSE, val |-> KeyPair("", "", NoExpiry, 0, 0)]

\* PQCKeyPair::is_expired at time t
is_expired(kp, t) == kp.expires_at.some /\ t > kp.expires_at.val

\* PQCKeyPair::is_active at time t
is_active(kp, t) == kp.status = "active" /\ ~is_expired(kp, t)

\* aes_encrypt: AES-256-GCM under the 32-byte key (the random nonce is part
\* of the ciphertext and plays no role in what decrypts).
aes_encrypt(key, plaintext) == [k |-> key, pt |-> plaintext]

\* aes_decrypt: the authenticated decryption succeeds under the key that
\* encrypted and fails under any other.
aes_decrypt(key, ciphertext) ==
    IF ciphertext.k = key
    THEN [ok |-> TRUE, err |-> "", pt |-> ciphertext.pt]
    ELSE [ok |-> FALSE, err |-> "decryption failed", pt |-> ""]

\* PQCKeyPair::encrypt uses the public key, PQCKeyPair::decrypt the private.
kp_encrypt(kp, plaintext) == aes_encrypt(kp.public_key, plaintext)

kp_decrypt(kp, ciphertext) == aes_decrypt(kp.private_key, ciphertext)

\* EncryptionManager::new
NewManager == [master |-> NoneKey, cache |-> EmptyMap]

\* A key lookup that asks the master key before the cache.
ResolveMasterFirst(mgr, key_id) ==
    IF mgr.master.some /\ mgr.master.val.id = key_id THEN mgr.master
    ELSE IF key_id \in DOMAIN mgr.cache THEN Some(mgr.cache[key_id])
    ELSE NoneKey

\* The key lookup of encrypt_data and decrypt_data: the cache entry under
\* key_id, else the master key when its id is key_id, else none.
ResolveKey(mgr, key_id) ==
    IF key_id \in DOMAIN mgr.cache THEN Some(mgr.cache[key_id])
    ELSE IF mgr.master.some /\ mgr.master.val.id = key_id THEN mgr.master
    ELSE NoneKey

NoEnvelope == [key_id |-> "", algorithm |-> "", ciphertext |-> [k |-> 0, pt |-> ""]]

\* EncryptionManager::encrypt_data at time t. The envelope is the base64 of
\* {payload: {key_id, algorithm, ciphertext}, signature}; the signature is
\* random bytes that verify never reads.
encrypt_data(mgr, plaintext, key_id, t) ==
    LET r == ResolveKey(mgr, key_id)
    IN  IF ~r.some
        THEN [ok |-> FALSE, err |-> "key not found in cache", env |-> NoEnvelope]
        ELSE IF ~is_active(r.val, t)
        THEN [ok |-> FALSE, err |-> "key is not active", env |-> NoEnvelope]
        ELSE [ok |-> TRUE, err |-> "",
              env |-> [key_id |-> key_id, algorithm |-> "AES-256-GCM",
                       ciphertext |-> kp_encrypt(r.val, plaintext)]]

\* EncryptionManager::decrypt_data at time t, on a well-formed envelope.
decrypt_data(mgr, env, t) ==
    LET r == ResolveKey(mgr, env.key_id)
    IN  IF ~r.some
        THEN [ok |-> FALSE, err |-> "key not found in cache", pt |-> ""]
        ELSE IF ~is_active(r.val, t)
        THEN [ok |-> FALSE, err |-> "key is not active", pt |-> ""]
        ELSE kp_decrypt(r.val, env.ciphertext)

\* ------------------------------------------------------- storage.rs

SensitiveCollections ==
    {"credentials", "pqc_keys", "sessions", "audit_log", "threat_events", "access_control"}

\* FileStorage::is_encrypted_collection
is_encrypted_collection(collection) == collection \in SensitiveCollections

\* The path save_blob writes: <base>/<collection>/blobs/<id>.
BlobPath(collection, id) == <<collection, "blobs", id>>

\* for (k, v) in update { doc.insert(k, v) }
Patch(doc, update) ==
    [k \in DOMAIN doc \cup DOMAIN update |-> IF k \in DOMAIN update THEN update[k] ELSE doc[k]]

Without(f, k) == [x \in DOMAIN f \ {k} |-> f[x]]

With(f, k, v) == [x \in DOMAIN f \cup {k} |-> IF x = k THEN v ELSE f[x]]

\* The MEMORY-blob test of insert: entryType is the string "MEMORY" and the
\* payload object holds a blob.
HasMemoryBlob(doc) ==
    /\ "entryType" \in DOMAIN doc
    /\ doc["entryType"] = "MEMORY"
    /\ "payload" \in DOMAIN doc
    /\ "blob" \in DOMAIN doc["payload"]

\* JSON values of payload fields: a string, true, or a string that is an
\* envelope returned by encrypt_data.
JStr(x) == [kind |-> "str", s |-> x]

JTrue == [kind |-> "bool", b |-> TRUE]

JEnvelope(env) == [kind |-> "envelope", env |-> env]

\* serde_json::Value::String(_)
IsString(v) == v.kind \in {"str", "envelope"}

\* FileStorage::is_sensitive_field
is_sensitive_field(collection, field_name) ==
    \/ collection = "credentials" /\ field_name \in {"hash", "salt"}
    \/ collection = "pqc_keys" /\ field_name \in {"kyber_private_key", "dilithium_private_key"}
    \/ collection = "sessions" /\ field_name = "token_hash"
    \/ collection = "audit_log" /\ field_name = "details"
    \/ collection = "threat_events" /\ field_name = "indicators"
    \/ collection = "access_control" /\ field_name = "permissions"

\* serde_json::to_vec of a payload value, and serde_json::from_slice of such
\* bytes.
to_vec(value) == <<"json", value>>

from_slice(bytes) == bytes[2]

\* format!("{}_encrypted", key)
Sentinel(key) == key \o "_encrypted"

\* The names a payload key can be made of before a final "_encrypted".
KeyStems == {"flag", "username", "hash", "salt", "id", "payload", "blob", "blobRef", "source", "value"}

\* key.ends_with("_encrypted")
EndsWithEncrypted(key) == \E stem \in KeyStems : key = Sentinel(stem)

\* FileStorage::encrypt_payload at time t: every sensitive field is replaced
\* by the envelope of its JSON text and gets a sentinel sibling; the other
\* fields are copied. (No payload here holds both a sensitive field and a
\* field named as its sentinel, so the order of the loop does not matter.)
encrypt_payload(mgr, collection, payload, key_id, t) ==
    LET sens == {k \in DOMAIN payload : is_sensitive_field(collection, k)}
        enc(k) == encrypt_data(mgr, to_vec(payload[k]), key_id, t)
    IN  IF \E k \in sens : ~enc(k).ok
        THEN [ok |-> FALSE, err |-> enc(CHOOSE k \in sens : ~enc(k).ok).err, payload |-> payload]
        ELSE [ok |-> TRUE, err |-> "",
              payload |-> [k \in DOMAIN payload \cup {Sentinel(x) : x \in sens} |->
                              IF k \in sens THEN JEnvelope(enc(k).env)
                              ELSE IF \E x \in sens : k = Sentinel(x) THEN JTrue
                              ELSE payload[k]]]

\* FileStorage::encrypt_document at time t
encrypt_document(mgr, collection, doc, t) ==
    IF ~mgr.master.some
    THEN [ok |-> FALSE, err |-> "no master key set for encryption", doc |-> doc]
    ELSE IF "payload" \notin DOMAIN doc
    THEN [ok |-> TRUE, err |-> "", doc |-> doc]
    ELSE
        LET r == encrypt_payload(mgr, collection, doc["payload"], mgr.master.val.id, t)
        IN  IF ~r.ok THEN [ok |-> FALSE, err |-> r.err, doc |-> doc]
            ELSE [ok |-> TRUE, err |-> "",
                  doc |-> With(With(With(doc, "payload", r.payload), "encrypted", TRUE),
                               "encryption_key_id", mgr.master.val.id)]

\* decrypt_data on a string value of a payload: a string that is no envelope
\* fails to decode.
DecryptValue(mgr, v, t) ==
    IF v.kind = "envelope" THEN decrypt_data(mgr, v.env, t)
    ELSE [ok |-> FALSE, err |-> "malformed envelope", pt |-> ""]

\* FileStorage::decrypt_payload at time t: keys ending in "_encrypted" are
\* skipped; a key whose sentinel is true is decrypted when its value is a
\* string and dropped otherwise; the other fields are copied.
decrypt_payload(mgr, payload, t) ==
    LET marked(k) == Sentinel(k) \in DOMAIN payload /\ payload[Sentinel(k)] = JTrue
        kept == {k \in DOMAIN payload :
                    /\ ~EndsWithEncrypted(k)
                    /\ marked(k) => IsString(payload[k])}
        dec(k) == DecryptValue(mgr, payload[k], t)
        failing == {k \in kept : marked(k) /\ ~dec(k).ok}
    IN  IF failing # {}
        THEN [ok |-> FALSE, err |-> dec(CHOOSE k \in failing : TRUE).err, payload |-> payload]
        ELSE [ok |-> TRUE, err |-> "",
              payload |-> [k \in kept |-> IF marked(k) THEN from_slice(dec(k).pt) ELSE payload[k]]]

\* FileStorage::decrypt_document at time t
decrypt_document(mgr, doc, t) ==
    LET r == decrypt_payload(mgr, doc["payload"], t)
        strip(d) == Without(Without(d, "encrypted"), "encryption_key_id")
    IN  IF "payload" \notin DOMAIN doc THEN [ok |-> TRUE, err |-> "", doc |-> strip(doc)]
        ELSE IF ~r.ok THEN [ok |-> FALSE, err |-> r.err, doc |-> doc]
        ELSE [ok |-> TRUE, err |-> "", doc |-> strip(With(doc, "payload", r.payload))]

\* FileStorage::insert at time t on the files and blobs of one collection
\* directory, with the storage's encryption manager. io_ok is whether the
\* file system accepts the writes. On a sensitive collection the document is
\* encrypted after the blob was saved. save_blob creates the blobs directory
\* and writes <blobs>/<id>; for the empty id that path is the directory
\* itself and the write fails. saved tells whether save_blob was called.
storage_insert(mgr, t, files, blobz, collection, doc, io_ok) ==
    IF ~io_ok
    THEN [ok |-> FALSE, err |-> "io", files |-> files, blobs |-> blobz, saved |-> FALSE]
    ELSE IF "id" \notin DOMAIN doc
    THEN [ok |-> FALSE, err |-> "document must have an 'id' field", files |-> files,
          blobs |-> blobz, saved |-> FALSE]
    ELSE
        LET id == doc["id"]
            ext == HasMemoryBlob(doc)
            doc_copy ==
                IF ext
                THEN With(doc, "payload",
                          With(Without(doc["payload"], "blob"), "blobRef", BlobPath(collection, id)))
                ELSE doc
            blobs2 == IF ext THEN With(blobz, id, doc["payload"]["blob"]) ELSE blobz
            e == encrypt_document(mgr, collection, doc_copy, t)
        IN  IF ext /\ id = ""
            THEN [ok |-> FALSE, err |-> "is a directory", files |-> files, blobs |-> blobz,
                  saved |-> TRUE]
            ELSE IF ~is_encrypted_collection(collection)
            THEN [ok |-> TRUE, err |-> "", files |-> With(files, id, doc_copy),
                  blobs |-> blobs2, saved |-> ext]
            ELSE IF ~e.ok
            THEN [ok |-> FALSE, err |-> e.err, files |-> files, blobs |-> blobs2, saved |-> ext]
            ELSE [ok |-> TRUE, err |-> "", files |-> With(files, id, e.doc), blobs |-> blobs2,
                  saved |-> ext]

\* FileStorage::find at time t: None when the file is absent; a document
\* flagged encrypted is decrypted; a MEMORY document whose payload holds a
\* blobRef that loads gets the blob back in place of it.
storage_find(mgr, t, files, blobz, collection, id) ==
    IF id \notin DOMAIN files THEN [ok |-> TRUE, err |-> "", doc |-> NoneDoc]
    ELSE
        LET raw == files[id]
            flagged == "encrypted" \in DOMAIN raw /\ raw["encrypted"] = TRUE
            d == decrypt_document(mgr, raw, t)
            doc == IF flagged THEN d.doc ELSE raw
            reinline ==
                /\ "entryType" \in DOMAIN doc
                /\ doc["entryType"] = "MEMORY"
                /\ "payload" \in DOMAIN doc
                /\ "blobRef" \in DOMAIN doc["payload"]
                /\ id \in DOMAIN blobz
        IN  IF flagged /\ ~d.ok THEN [ok |-> FALSE, err |-> d.err, doc |-> NoneDoc]
            ELSE IF reinline
            THEN [ok |-> TRUE, err |-> "",
                  doc |-> Some(With(doc, "payload",
                                    With(Without(doc["payload"], "blobRef"), "blob", blobz[id])))]
            ELSE [ok |-> TRUE, err |-> "", doc |-> Some(doc)]

\* FileStorage::insert of a storage whose encryption manager was never given
\* a master key (the storage DB::new builds).
StorageInsert(files, blobz, collection, doc, io_ok) ==
    storage_insert(NewManager, 1, files, blobz, collection, doc, io_ok)

\* FileStorage::find of such a storage, on documents that decrypt.
StorageFind(files, blobz, collection, id) ==
    storage_find(NewManager, 1, files, blobz, collection, id).doc

\* FileStorage::update at time t: finds the document, overwrites its
\* top-level fields with the patch and hands the result to insert.
UpdateFound(f, mgr, t, files, blobz, collection, update) ==
    IF ~f.ok
    THEN [ok |-> FALSE, err |-> f.err, files |-> files, blobs |-> blobz, saved |-> FALSE]
    ELSE IF ~f.doc.some
    THEN [ok |-> FALSE, err |-> "document not found", files |-> files, blobs |-> blobz,
          saved |-> FALSE]
    ELSE storage_insert(mgr, t, files, blobz, collection, Patch(f.doc.val, update), TRUE)

storage_update(mgr, t, files, blobz, collection, id, update) ==
    UpdateFound(storage_find(mgr, t, files, blobz, collection, id),
                mgr, t, files, blobz, collection, update)

\* FileStorage::delete: removes the document file, then the blob, if present.
\* blobdir is whether the blobs directory of the collection exists: for the
\* empty id the blob path is that directory, it exists, and remove_file fails
\* on it.
storage_delete(files, blobz, blobdir, id) ==
    IF id = "" /\ blobdir
    THEN [ok |-> FALSE, err |-> "is a directory", files |-> Without(files, id), blobs |-> blobz]
    ELSE [ok |-> TRUE, err |-> "", files |-> Without(files, id), blobs |-> Without(blobz, id)]

\* FileStorage::delete on a collection that never saved a blob.
StorageDelete(files, blobz, id) == storage_delete(files, blobz, FALSE, id)

\* FileStorage::find_all at time t: find on the stem of every directory entry
\* with the extension json; the first error of find is returned. The file of
\* the empty id is named ".json", which has no extension. The documents are
\* returned in directory order, here as a set.
CollectFound(found) ==
    IF \E id \in DOMAIN found : ~found[id].ok
    THEN [ok |-> FALSE, err |-> found[CHOOSE id \in DOMAIN found : ~found[id].ok].err,
          docs |-> {}]
    ELSE [ok |-> TRUE, err |-> "", docs |-> {found[id].doc.val : id \in DOMAIN found}]

storage_find_all(mgr, t, files, blobz, collection) ==
    CollectFound([id \in {x \in DOMAIN files : x # ""} |->
                     storage_find(mgr, t, files, blobz, collection, id)])

\* ------------------------------------------------------- model bounds

\* Number of API calls made on the peers in one run.
MaxOps == 3

\* Latest wall-clock second.
MaxTime == 2

\* Bootstrap-connection tasks alive at once.
MaxTasks == 2

\* Handlers registered per message type.
MaxHandlers == 2

\* Operations in a batch handed to resolve_conflicts.
MaxBatch == 3

\* Latest timestamp of an operation in a batch.
MaxStamp == 3

\* Calls made on an encryption manager or on a storage in one run.
MaxKeyOps == 3

\* Concurrent initialize() calls on one network manager.
MaxInitCalls == 2

\* Concurrent calling tasks on one network manager.
MaxLockTasks == 2

\* Concurrent update calls on one document.
MaxUpdaters == 2

\* Concurrent callers of collection(name) on one database.
MaxDbCallers == 3

\* Sends, shutdowns and socket closings on one network manager in one run.
MaxNetOps == 2

\* ------------------------------------------------------- inputs

\* The address of an endpoint that is not one of the peers and answers the
\* handshake as it likes.
ExtAddr == "ext"

Addrs == Peers \cup {ExtAddr}

\* What the external endpoint may answer to the greeting: a line (prefix and
\* rest) or the end of the stream (an empty line).
ExtReplies ==
    {[prefix |-> "KNIRV:", rest |-> "x-9"], [prefix |-> "HELLO:", rest |-> "x-9"],
     [prefix |-> "", rest |-> ""]}

\* Documents handed to Collection.insert.
UserDocs ==
    {[id |-> "d1", value |-> "x"], [id |-> "d1", value |-> "y"], [value |-> "x"]}

\* Patches handed to Collection.update.
UserPatches == {[value |-> "y"]}

\* Bootstrap lists handed to join_network.
BootLists == {<<>>} \cup {<<x>> : x \in Addrs}

\* Collection sets of the configurations handed to create_network.
CfgCollections == {{}, {CollName}}

HandlerIds == {"h1", "h2"}

MsgTypes == {"Operation"}

VARIABLES docA, docB, atA, atB, mpc

VARIABLES initialized, listener, networks, stats, peers, connections, handlers,
          netId, syncNet, store, blobs, tasks, history, last, now, nops

\* Clock laboratory: three clocks and a peer, and what the clock operations
\* return on them.
VARIABLES cin, cout, cpc

cvars == <<cin, cout, cpc>>

\* Resolver laboratory: a batch of operations, and what resolve_conflicts
\* returns on it (a) and on a permutation of it (b).
VARIABLES rin, rout, rpc

rvars == <<rin, rout, rpc>>

\* An encryption manager (EncryptionManager.master_key and key_cache), the
\* time, the key pairs generate has returned, the envelopes encrypt_data has
\* returned with the key pair and plaintext of each, the last call and its
\* result, and the number of calls made.
VARIABLES master_key, key_cache, ktime, kgen, issued, kres, knops

kvars == <<master_key, key_cache, ktime, kgen, issued, kres, knops>>

\* A FileStorage whose encryption manager is the one above: the document files
\* and blob files of each collection directory, whether its blobs directory
\* exists, what was last inserted into each collection with success and is
\* still in place, and the last call with its arguments and result.
VARIABLES sfiles, sblobs, sblobdir, sorig, slast

stvars == <<sfiles, sblobs, sblobdir, sorig, slast>>

\* One NetworkManager with callers running concurrently: its initialized flag,
\* its listener, the listeners bound so far, the holder of the write lock on
\* initialized, the position of each initialize() call, the connection table
\* with the state of each socket and the bytes its remote end has received,
\* the position of shutdown(), the last send with its result, and the remote
\* peers whose bootstrap task is still waiting for the reply to its greeting.
VARIABLES nm_initialized, nm_listener, nm_bound, nm_lock, nm_calls, nm_connections,
          nm_shutdown, nm_last, nm_nops, nm_tasks

nvars == <<nm_initialized, nm_listener, nm_bound, nm_lock, nm_calls, nm_connections,
           nm_shutdown, nm_last, nm_nops, nm_tasks>>

\* A DistributedDatabase with callers of collection(name) running
\* concurrently: its collections map (name to handle), the collections
\* constructed so far (a handle is the position of one), the holder of the
\* write lock on the map, and the position of each caller.
VARIABLES db_collections, db_made, db_lock, db_calls

dvars == <<db_collections, db_made, db_lock, db_calls>>

\* One collection directory of a FileStorage with update calls running on
\* parallel threads: its document files and blob files, the position of each
\* update call with the document it holds, and what the last find returned.
VARIABLES u_files, u_blobs, u_calls, u_last

uvars == <<u_files, u_blobs, u_calls, u_last>>

\* One NetworkManager at the level of its locks: the manager's tables, the
\* holders of its reader/writer locks, the holder of the mutex of the stream
\* to the remote peer, the position of each calling task and of the bootstrap
\* task, and what the last accessor returned.
VARIABLES l_mgr, l_rw, l_mx, l_tasks, l_obs

lvars == <<l_mgr, l_rw, l_mx, l_tasks, l_obs>>

\* The variables of the specifications of concurrent callers.
yvars == <<dvars, uvars, lvars>>

svars == <<initialized, listener, networks, stats, peers, connections, handlers,
           netId, syncNet, store, blobs, tasks, history, last, now, nops>>


mvars == <<docA, docB, atA, atB, mpc>>

\* The variables of the pure-function and key-management specifications.
xvars == <<cvars, rvars, kvars, stvars, nvars, yvars>>

vars == <<docA, docB, atA, atB, mpc, svars, xvars>>

\* ------------------------------------------------------- initial state

\* Every peer after DB::new: FileStorage::new, NetworkManager::new and
\* DistributedDatabase::new, which calls network.initialize(); one collection
\* CollName per peer (DistributedCollection::new).
SysInit ==
    /\ initialized = [p \in Peers |-> TRUE]
    /\ listener = [p \in Peers |-> TRUE]
    /\ networks = [p \in Peers |-> EmptyMap]
    /\ stats = [p \in Peers |-> EmptyMap]
    /\ peers = [p \in Peers |-> EmptyMap]
    /\ connections = [p \in Peers |-> EmptyMap]
    /\ handlers = [p \in Peers |-> [mt \in MsgTypes |-> <<>>]]
    /\ netId = [p \in Peers |-> NoneNet]
    /\ syncNet = [p \in Peers |-> ""]
    /\ store = [p \in Peers |-> EmptyMap]
    /\ blobs = [p \in Peers |-> EmptyMap]
    /\ tasks = <<>>
    /\ history = [p \in Peers |-> <<>>]
    /\ last = [op |-> "new", peer |-> "", ok |-> TRUE, err |-> "", n |-> 0]
    /\ now = 1
    /\ nops = 0

\* The resolver's variables while the peers run.
MergeIdle ==
    /\ docA = LitA
    /\ docB = LitB
    /\ atA = LitA
    /\ atB = LitB
    /\ mpc = "off"

NoResult ==
    [op |-> "new", key_id |-> "", ok |-> TRUE, err |-> "", env |-> NoEnvelope, pt |-> ""]

\* A manager after EncryptionManager::new, before any call; the manager
\* variables stay so while another specification runs.
KeysIdle ==
    /\ knops = 0
    /\ master_key = NoneKey
    /\ key_cache = EmptyMap
    /\ ktime = 1
    /\ kgen = {}
    /\ issued = {}
    /\ kres = NoResult

\* The collection directories of the storage: a sensitive one and another.
StoreCollections == {"credentials", "mem"}

NoInsert == [some |-> FALSE, via |-> "", doc |-> EmptyMap, user |-> EmptyMap, key |-> NoneKey]

NoCall ==
    [op |-> "new", collection |-> "", id |-> "", patch |-> EmptyMap, ok |-> TRUE, err |-> "",
     doc |-> NoneDoc, docs |-> {}]

\* A storage after FileStorage::new on an empty directory; the storage
\* variables stay so while another specification runs.
StoreIdle ==
    /\ sfiles = [c \in StoreCollections |-> EmptyMap]
    /\ sblobs = [c \in StoreCollections |-> EmptyMap]
    /\ sblobdir = [c \in StoreCollections |-> FALSE]
    /\ sorig = [c \in StoreCollections |-> NoInsert]
    /\ slast = NoCall

\* The initialize() calls of the concurrent callers.
InitCalls == 1..MaxInitCalls

NoListener == 0

NoSend == [op |-> "new", peer |-> "", msg |-> EmptyMap, ok |-> TRUE, err |-> ""]

\* The manager after NetworkManager::new, before any call; the variables stay
\* so while another specification runs.
NetIdle ==
    /\ nm_initialized = FALSE
    /\ nm_listener = NoListener
    /\ nm_bound = {}
    /\ nm_lock = 0
    /\ nm_calls = [i \in InitCalls |-> [pc |-> "new", ok |-> FALSE, bind |-> FALSE]]
    /\ nm_connections = EmptyMap
    /\ nm_shutdown = [pc |-> "idle", n |-> 0]
    /\ nm_last = NoSend
    /\ nm_nops = 0
    /\ nm_tasks = {}

\* The callers of DistributedDatabase::collection.
DbCallers == 1..MaxDbCallers

NoDbCall == [pc |-> "new", name |-> "", ok |-> FALSE, handle |-> 0]

\* The database after DistributedDatabase::new, before any call; the
\* variables stay so while another specification runs.
DbIdle ==
    /\ db_collections = EmptyMap
    /\ db_made = <<>>
    /\ db_lock = 0
    /\ db_calls = [i \in DbCallers |-> NoDbCall]

\* The document the concurrent updates work on: a MEMORY entry with a blob.
RaceDoc ==
    [id |-> "u1", entryType |-> "MEMORY", payload |-> [blob |-> "B1", note |-> "n1"]]

\* The update calls on that document.
Updaters == 1..MaxUpdaters

NoUpdate == [pc |-> "new", patch |-> EmptyMap, doc |-> EmptyMap, ok |-> FALSE]

\* A storage directory holding RaceDoc, inserted by Storage.insert, before
\* any update is called; the variables stay so while another specification
\* runs.
RaceIdle ==
    /\ u_files = StorageInsert(EmptyMap, EmptyMap, "mem", RaceDoc, TRUE).files
    /\ u_blobs = StorageInsert(EmptyMap, EmptyMap, "mem", RaceDoc, TRUE).blobs
    /\ u_calls = [i \in Updaters |-> NoUpdate]
    /\ u_last = NoneDoc

\* The reader/writer locks of a NetworkManager.
Locks == {"initialized", "listener", "networks", "stats", "connections", "peers"}

\* Nobody holds the lock.
NoHolder == -1

\* The task join_network spawns, and the tasks of the callers.
BootId == 0

Callers == 1..MaxLockTasks

LockTaskIds == {BootId} \cup Callers

NoTask == [op |-> "", pc |-> "idle", ok |-> TRUE]

NoObs == [op |-> "new", locked |-> FALSE, res |-> {}]

\* The manager after NetworkManager::new with no task running; the variables
\* stay so while another specification runs.
LockIdle ==
    /\ l_mgr = [initialized |-> FALSE, listener |-> FALSE, networks |-> EmptyMap,
                stats |-> EmptyMap, connections |-> EmptyMap, peers |-> {}]
    /\ l_rw = [l \in Locks |-> [w |-> NoHolder, r |-> {}]]
    /\ l_mx = NoHolder
    /\ l_tasks = [t \in LockTaskIds |-> NoTask]
    /\ l_obs = NoObs

\* The variables of the specifications of concurrent callers while another
\* specification runs.
ConcIdle == DbIdle /\ RaceIdle /\ LockIdle

\* The resolver-batch variables while another specification runs.
ResolveIdle ==
    /\ rin = <<>>
    /\ rout = [a |-> <<>>, b |-> <<>>]
    /\ rpc = "off"

\* What the clock operations return on the clocks u, v, w and the peer p.
ClockResults(u, v, w, p) ==
    [cmp_vv |-> compare(v, v),
     cmp_vw |-> compare(v, w),
     cmp_wv |-> compare(w, v),
     hb_vw |-> happens_before(v, w),
     m_vw |-> merge(v, w),
     m_wv |-> merge(w, v),
     m_vv |-> merge(v, v),
     m_uv_w |-> merge(merge(u, v), w),
     m_u_vw |-> merge(u, merge(v, w)),
     inc |-> increment(v, p),
     m_v_inc |-> merge(v, increment(v, p))]

\* The clock variables while another specification runs.
ClockIdle ==
    /\ cin = [u |-> NewClock, v |-> NewClock, w |-> NewClock, p |-> "a-1"]
    /\ cout = ClockResults(NewClock, NewClock, NewClock, "a-1")
    /\ cpc = "off"

\* Any three clocks and any peer.
ClockInit ==
    /\ cin \in [u : Clocks, v : Clocks, w : Clocks, p : Peers]
    /\ cout = ClockResults(NewClock, NewClock, NewClock, "a-1")
    /\ cpc = "input"
    /\ SysInit
    /\ MergeIdle
    /\ ResolveIdle
    /\ KeysIdle
    /\ StoreIdle
    /\ NetIdle
    /\ ConcIdle

\* compare, happens_before, merge and increment are called on the inputs.
ClockOps ==
    /\ cpc = "input"
    /\ cout' = ClockResults(cin.u, cin.v, cin.w, cin.p)
    /\ cpc' = "done"
    /\ UNCHANGED <<cin, mvars, svars, rvars, kvars, stvars, nvars, yvars>>

ClockNext == ClockOps

SpecClock == ClockInit /\ [][ClockNext]_vars

\* Document ids the operations of a batch are about.
OpDocIds == {"d1", "d2"}

\* CRDTOperation (types.rs): the fields resolve_conflicts reads, and the
\* author and vector that tell operations apart.
BatchOps ==
    {[document_id |-> d, timestamp |-> t, peer_id |-> p, vector |-> v] :
        d \in OpDocIds, t \in 1..MaxStamp, p \in Peers,
        v \in {increment(NewClock, "a-1"), increment(increment(NewClock, "a-1"), "a-1")}}

Batches == UNION {[1..n -> BatchOps] : n \in 0..MaxBatch}

\* The batch in the order given by the permutation f of its indices.
Permuted(batch, f) == [i \in DOMAIN batch |-> batch[f[i]]]

ResolveInit ==
    /\ rin \in Batches
    /\ rout = [a |-> <<>>, b |-> <<>>]
    /\ rpc = "input"
    /\ SysInit
    /\ MergeIdle
    /\ ClockIdle
    /\ KeysIdle
    /\ StoreIdle
    /\ NetIdle
    /\ ConcIdle

\* resolve_conflicts is called on the batch and on a reordering of it.
Resolve ==
    /\ rpc = "input"
    /\ \E f \in Permutations(DOMAIN rin) :
          rout' = [a |-> resolve_conflicts(rin), b |-> resolve_conflicts(Permuted(rin, f))]
    /\ rpc' = "done"
    /\ UNCHANGED <<rin, mvars, svars, cvars, kvars, stvars, nvars, yvars>>

ResolveNext == Resolve

SpecResolve == ResolveInit /\ [][ResolveNext]_vars

\* Peer A holds version docA and peer B holds version docB of the same id.
MergeInit ==
    /\ \E pair \in (Versions \X Versions) \cup {<<LitA, LitB>>} :
          /\ docA = pair[1]
          /\ docB = pair[2]
    /\ atA = docA
    /\ atB = docB
    /\ mpc = "input"
    /\ SysInit
    /\ ClockIdle
    /\ ResolveIdle
    /\ KeysIdle
    /\ StoreIdle
    /\ NetIdle
    /\ ConcIdle

\* The two peers exchange their versions: each merges the other's version
\* into the one it holds, the received version being `remote`.
Exchange ==
    /\ mpc = "input"
    /\ atA' = merge_documents(atA, docB)
    /\ atB' = merge_documents(atB, docA)
    /\ mpc' = "merged"
    /\ UNCHANGED <<docA, docB, svars, xvars>>

MergeNext == Exchange

SpecMerge == MergeInit /\ [][MergeNext]_vars

\* ------------------------------------------ the encryption manager alone

KeyIds == {"k1", "k2"}

\* The id (a fresh uuid) of the key pair generate returns.
GenId == "g1"

\* Key pairs a caller builds or loads: two active pairs with the same id and
\* different material, a revoked pair and a pair that expires after time 1;
\* each has the same bytes as public and as private key.
UserKeyPairs ==
    {KeyPair("k1", "active", NoExpiry, 1, 1),
     KeyPair("k1", "active", NoExpiry, 2, 2),
     KeyPair("k2", "revoked", NoExpiry, 1, 1),
     KeyPair("k2", "active", Some(1), 1, 1)}

Plaintexts == {"p1", "p2"}

\* The manager as the operators of crypto/pqc.rs take it.
Manager == [master |-> master_key, cache |-> key_cache]

\* The key pairs a caller can hand to the manager.
HeldKeyPairs == UserKeyPairs \cup kgen

KeyCall == knops < MaxKeyOps /\ knops' = knops + 1

KeysInit ==
    /\ KeysIdle
    /\ StoreIdle
    /\ NetIdle
    /\ ConcIdle
    /\ SysInit
    /\ MergeIdle
    /\ ClockIdle
    /\ ResolveIdle

\* EncryptionManager::set_master_key
SetMasterKey(kp) ==
    /\ KeyCall
    /\ master_key' = Some(kp)
    /\ kres' = [NoResult EXCEPT !.op = "set_master_key", !.key_id = kp.id]
    /\ UNCHANGED <<key_cache, ktime, kgen, issued>>

\* EncryptionManager::cache_key
CacheKey(key_id, kp) ==
    /\ KeyCall
    /\ key_cache' = With(key_cache, key_id, kp)
    /\ kres' = [NoResult EXCEPT !.op = "cache_key", !.key_id = key_id]
    /\ UNCHANGED <<master_key, ktime, kgen, issued>>

\* EncryptionManager::remove_key
RemoveKey(key_id) ==
    /\ KeyCall
    /\ key_cache' = Without(key_cache, key_id)
    /\ kres' = [NoResult EXCEPT !.op = "remove_key", !.key_id = key_id]
    /\ UNCHANGED <<master_key, ktime, kgen, issued>>

\* EncryptionManager::generate_data_encryption_key: PQCKeyPair::generate
\* fills the public and the private key by two separate getrandom calls, and
\* the pair is cached under its id.
GenerateDataEncryptionKey(public_key, private_key) ==
    /\ KeyCall
    /\ kgen = {}
    /\ LET kp == KeyPair(GenId, "active", NoExpiry, public_key, private_key)
       IN  /\ key_cache' = With(key_cache, kp.id, kp)
           /\ kgen' = kgen \cup {kp}
    /\ kres' = [NoResult EXCEPT !.op = "generate_data_encryption_key", !.key_id = GenId]
    /\ UNCHANGED <<master_key, ktime, issued>>

\* EncryptionManager::encrypt_data
EncryptData(plaintext, key_id) ==
    /\ KeyCall
    /\ LET r == encrypt_data(Manager, plaintext, key_id, ktime)
           used == ResolveKey(Manager, key_id).val
       IN  /\ kres' = [op |-> "encrypt_data", key_id |-> key_id, ok |-> r.ok, err |-> r.err,
                       env |-> r.env, pt |-> ""]
           /\ issued' = IF r.ok
                        THEN issued \cup {[env |-> r.env, kp |-> used, p |-> plaintext]}
                        ELSE issued
    /\ UNCHANGED <<master_key, key_cache, ktime, kgen>>

\* EncryptionManager::decrypt_data on an envelope encrypt_data returned.
DecryptData(env) ==
    /\ KeyCall
    /\ LET r == decrypt_data(Manager, env, ktime)
       IN  kres' = [op |-> "decrypt_data", key_id |-> env.key_id, ok |-> r.ok, err |-> r.err,
                    env |-> env, pt |-> r.pt]
    /\ UNCHANGED <<master_key, key_cache, ktime, kgen, issued>>

\* Time passes (Utc::now() in is_expired); the result of the last call is
\* no longer the result of a call made now.
KeyTick ==
    /\ ktime < MaxTime
    /\ ktime' = ktime + 1
    /\ kres' = [NoResult EXCEPT !.op = "tick"]
    /\ UNCHANGED <<master_key, key_cache, kgen, issued, knops>>

KeysNext ==
    \/ \E kp \in HeldKeyPairs : SetMasterKey(kp) /\ UNCHANGED <<mvars, svars, cvars, rvars, stvars, nvars, yvars>>
    \/ \E id \in KeyIds \cup {GenId}, kp \in HeldKeyPairs :
          CacheKey(id, kp) /\ UNCHANGED <<mvars, svars, cvars, rvars, stvars, nvars, yvars>>
    \/ \E id \in KeyIds \cup {GenId} : RemoveKey(id) /\ UNCHANGED <<mvars, svars, cvars, rvars, stvars, nvars, yvars>>
    \/ \E pk \in KeyMaterial, sk \in KeyMaterial :
          GenerateDataEncryptionKey(pk, sk) /\ UNCHANGED <<mvars, svars, cvars, rvars, stvars, nvars, yvars>>
    \/ \E pt \in Plaintexts, id \in KeyIds \cup {GenId} :
          EncryptData(pt, id) /\ UNCHANGED <<mvars, svars, cvars, rvars, stvars, nvars, yvars>>
    \/ \E i \in issued : DecryptData(i.env) /\ UNCHANGED <<mvars, svars, cvars, rvars, stvars, nvars, yvars>>
    \/ KeyTick /\ UNCHANGED <<mvars, svars, cvars, rvars, stvars, nvars, yvars>>

SpecKeys == KeysInit /\ [][KeysNext]_vars

\* ------------------------------------------------------- network.rs

ZeroStats(n) ==
    [network_id |-> n, connected_peers |-> 0, total_peers |-> 0, collections_shared |-> 0,
     operations_sent |-> 0, operations_received |-> 0, bytes_transferred |-> 0]

\* The configuration join_network synthesizes for an unknown network.
DefaultConfig(n) ==
    [network_id |-> n, collections |-> {}, bootstrap_peers |-> <<>>, private_by_default |-> TRUE]

Ret(op, p, ok, err, n) == [op |-> op, peer |-> p, ok |-> ok, err |-> err, n |-> n]

\* One API call is made.
Call == nops < MaxOps /\ nops' = nops + 1

\* NetworkManager::broadcast_message on a connection table: refused when the
\* manager is not initialized, else one frame is written to every connection.
broadcast_message(conns, init, msg) ==
    IF ~init
    THEN [ok |-> FALSE, err |-> "not initialized", conns |-> conns]
    ELSE [ok |-> TRUE, err |-> "",
          conns |-> [r \in DOMAIN conns |-> [conns[r] EXCEPT !.frames = Append(@, msg)]]]

\* NetworkManager::initialize: a no-op when initialized, else binds the
\* listener and sets the flag. No accept loop is started.
Initialize(p) ==
    /\ Call
    /\ initialized' = [initialized EXCEPT ![p] = TRUE]
    /\ listener' = [listener EXCEPT ![p] = TRUE]
    /\ last' = Ret("initialize", p, TRUE, "", 0)
    /\ UNCHANGED <<networks, stats, peers, connections, handlers, netId, syncNet,
                   store, blobs, tasks, history, now>>

\* NetworkManager::create_network(cfg): initializes, then registers cfg with
\* its collections emptied, and zero stats, unless the id is known.
CreateNetwork(p, n, colls) ==
    /\ Call
    /\ initialized' = [initialized EXCEPT ![p] = TRUE]
    /\ listener' = [listener EXCEPT ![p] = TRUE]
    /\ IF n \in DOMAIN networks[p]
       THEN UNCHANGED <<networks, stats>>
       ELSE /\ networks' = [networks EXCEPT ![p] =
                  With(@, n, [network_id |-> n, collections |-> {}, bootstrap_peers |-> <<>>,
                              private_by_default |-> TRUE])]
            /\ stats' = [stats EXCEPT ![p] = With(@, n, ZeroStats(n))]
    /\ last' = Ret("create_network", p, TRUE, "", 0)
    /\ UNCHANGED <<peers, connections, handlers, netId, syncNet, store, blobs, tasks,
                   history, now>>

\* NetworkManager::join_network(n, bootstrap_peers): initializes, registers a
\* default configuration when n is unknown, and spawns one connecting task
\* per bootstrap address.
JoinNetwork(p, n, boots) ==
    /\ Call
    /\ Len(tasks) + Len(boots) <= MaxTasks
    /\ initialized' = [initialized EXCEPT ![p] = TRUE]
    /\ listener' = [listener EXCEPT ![p] = TRUE]
    /\ IF n \in DOMAIN networks[p]
       THEN UNCHANGED <<networks, stats>>
       ELSE /\ networks' = [networks EXCEPT ![p] = With(@, n, DefaultConfig(n))]
            /\ stats' = [stats EXCEPT ![p] = With(@, n, ZeroStats(n))]
    /\ tasks' = tasks \o [i \in 1..Len(boots) |->
                              [owner |-> p, addr |-> boots[i], pc |-> "connect"]]
    /\ last' = Ret("join_network", p, TRUE, "", 0)
    /\ UNCHANGED <<peers, connections, handlers, netId, syncNet, store, blobs, history, now>>

\* NetworkManager::leave_network
LeaveNetwork(p, n) ==
    /\ Call
    /\ networks' = [networks EXCEPT ![p] = Without(@, n)]
    /\ stats' = [stats EXCEPT ![p] = Without(@, n)]
    /\ last' = Ret("leave_network", p, TRUE, "", 0)
    /\ UNCHANGED <<initialized, listener, peers, connections, handlers, netId, syncNet,
                   store, blobs, tasks, history, now>>

\* NetworkManager::add_collection_to_network on the tables of one manager:
\* the collection is added to the network if it is known, then the
\* announcement is broadcast.
add_collection_to_network(nets, sts, conns, init, p, n, c, t) ==
    LET nets2 == IF n \in DOMAIN nets
                 THEN [nets EXCEPT ![n].collections = @ \cup {c}]
                 ELSE nets
        sts2 == IF n \in DOMAIN nets /\ n \in DOMAIN sts
                THEN [sts EXCEPT ![n].collections_shared = Cardinality(nets2[n].collections)]
                ELSE sts
        msg == [msg_type |-> "CollectionAnnounce", network_id |-> n, sender_id |-> p,
                timestamp |-> t, payload |-> [collection |-> c]]
        b == broadcast_message(conns, init, msg)
    IN  [ok |-> b.ok, err |-> b.err, nets |-> nets2, sts |-> sts2, conns |-> b.conns, msg |-> msg]

\* NetworkManager::remove_collection_from_network
remove_collection_from_network(nets, sts, n, c) ==
    LET nets2 == IF n \in DOMAIN nets
                 THEN [nets EXCEPT ![n].collections = @ \ {c}]
                 ELSE nets
        sts2 == IF n \in DOMAIN nets /\ n \in DOMAIN sts
                THEN [sts EXCEPT ![n].collections_shared = Cardinality(nets2[n].collections)]
                ELSE sts
    IN  [nets |-> nets2, sts |-> sts2]

\* NetworkManager::on_message
OnMessage(p, mt, h) ==
    /\ Call
    /\ Len(handlers[p][mt]) < MaxHandlers
    /\ handlers' = [handlers EXCEPT ![p][mt] = Append(@, h)]
    /\ last' = Ret("on_message", p, TRUE, "", 0)
    /\ UNCHANGED <<initialized, listener, networks, stats, peers, connections, netId,
                   syncNet, store, blobs, tasks, history, now>>

\* NetworkManager::shutdown: clears the flag, drops the listener and the
\* connections. A connection still waiting in the dropped listener's queue
\* is reset, so the task reading on it gets an error.
Shutdown(p) ==
    /\ Call
    /\ initialized' = [initialized EXCEPT ![p] = FALSE]
    /\ listener' = [listener EXCEPT ![p] = FALSE]
    /\ connections' = [connections EXCEPT ![p] = EmptyMap]
    /\ tasks' = [i \in 1..Len(tasks) |->
                    IF tasks[i].addr = p /\ tasks[i].pc = "read_line"
                    THEN [tasks[i] EXCEPT !.pc = "reset"]
                    ELSE tasks[i]]
    /\ last' = Ret("shutdown", p, TRUE, "", 0)
    /\ UNCHANGED <<networks, stats, peers, handlers, netId, syncNet, store, blobs,
                   history, now>>

\* ------------------------------ the task join_network spawns (network.rs)

RemoveAt(seq, i) == [j \in 1..(Len(seq) - 1) |-> IF j < i THEN seq[j] ELSE seq[j + 1]]

\* TcpStream::connect and the write of the greeting KNIRV:<peer_id>. The
\* connect succeeds when the address is the external endpoint or a peer whose
\* listener is bound (the kernel queues the connection; nothing accepts it).
TaskConnect(i) ==
    /\ i \in 1..Len(tasks)
    /\ tasks[i].pc = "connect"
    /\ LET a == tasks[i].addr
       IN  IF a = ExtAddr \/ listener[a]
           THEN tasks' = [tasks EXCEPT ![i].pc = "read_line"]
           ELSE tasks' = RemoveAt(tasks, i)
    /\ UNCHANGED <<initialized, listener, networks, stats, peers, connections, handlers,
                   netId, syncNet, store, blobs, history, last, now, nops>>

TaskReadLineUnchecked(i) ==
    /\ i \in 1..Len(tasks)
    /\ \/ /\ tasks[i].pc = "reset"
          /\ UNCHANGED <<connections, peers>>
       \/ /\ tasks[i].pc = "read_line"
          /\ tasks[i].addr = ExtAddr
          /\ \E reply \in ExtReplies :
                connections' = [connections EXCEPT ![tasks[i].owner] =
                    With(@, reply.rest, [addr |-> tasks[i].addr, frames |-> <<>>])]
          /\ UNCHANGED peers
    /\ tasks' = RemoveAt(tasks, i)
    /\ UNCHANGED <<initialized, listener, networks, stats, handlers, netId, syncNet,
                   store, blobs, history, last, now, nops>>

\* read_line returns: with the external endpoint's answer, or with an error
\* on a reset connection. A peer of this program never answers, so a task
\* reading from a peer's listener stays blocked. A line starting with KNIRV:
\* records the connection and the peer under the id that follows the prefix.
TaskReadLine(i) ==
    /\ i \in 1..Len(tasks)
    /\ \/ /\ tasks[i].pc = "reset"
          /\ UNCHANGED <<connections, peers>>
       \/ /\ tasks[i].pc = "read_line"
          /\ tasks[i].addr = ExtAddr
          /\ \E reply \in ExtReplies :
                IF reply.prefix = "KNIRV:"
                THEN LET o == tasks[i].owner
                     IN  /\ connections' = [connections EXCEPT ![o] =
                                With(@, reply.rest, [addr |-> tasks[i].addr, frames |-> <<>>])]
                         /\ peers' = [peers EXCEPT ![o] =
                                With(@, reply.rest, [peer_id |-> reply.rest,
                                                     addrs |-> <<tasks[i].addr>>,
                                                     last_seen |-> now])]
                ELSE UNCHANGED <<connections, peers>>
    /\ tasks' = RemoveAt(tasks, i)
    /\ UNCHANGED <<initialized, listener, networks, stats, handlers, netId, syncNet,
                   store, blobs, history, last, now, nops>>

\* ------------------------------------------------------- collection.rs

\* The DistributedDocument insert builds around the caller's document.
NewDistributedDoc(p, doc, t) ==
    [id |-> IF "id" \in DOMAIN doc THEN doc["id"] ELSE "",
     entry_type |-> "Memory",
     payload |-> Some(doc),
     vector |-> increment(NewClock, p),
     timestamp |-> t,
     peer_id |-> p,
     stage |-> NoneStage,
     deleted |-> FALSE]

\* The CRDTOperation and its ProtocolMessage envelope built by insert.
InsertOperation(p, n, dd, t, uuid) ==
    [msg_type |-> "Operation", network_id |-> n, sender_id |-> p, timestamp |-> t,
     payload |-> [id |-> uuid, op_type |-> "Insert", collection |-> CollName,
                  document_id |-> dd.id, data |-> Some(dd),
                  vector |-> increment(NewClock, p), timestamp |-> t, peer_id |-> p]]

\* What history records of a storage write: the call it came from, the document
\* written and the network the collection was attached to at that moment.
PersistEvent(via, sm, net) ==
    [ev |-> "persist", via |-> via, id |-> sm["id"], doc |-> sm, net |-> net]

BroadcastEvent(msg) == [ev |-> "broadcast", msg |-> msg]

RemoveEvent(id, net) == [ev |-> "remove", id |-> id, net |-> net]

\* DistributedCollection::insert: builds the distributed document, stores it,
\* and, when the collection is attached, broadcasts the Insert operation.
\* history records the storage write and then the broadcast, in that order.
Insert(p, doc, io_ok, t) ==
    /\ Call
    /\ now' = t
    /\ LET dd == NewDistributedDoc(p, doc, t)
           sm == ToStorageMap(dd)
           r == StorageInsert(store[p], blobs[p], CollName, sm, io_ok)
           msg == InsertOperation(p, netId[p].val, dd, t, nops)
           b == broadcast_message(connections[p], initialized[p], msg)
       IN  /\ store' = [store EXCEPT ![p] = r.files]
           /\ blobs' = [blobs EXCEPT ![p] = r.blobs]
           /\ IF ~r.ok
              THEN /\ last' = Ret("insert", p, FALSE, r.err, 0)
                   /\ UNCHANGED <<connections, history>>
              ELSE IF ~netId[p].some
              THEN /\ last' = Ret("insert", p, TRUE, "", 0)
                   /\ history' = [history EXCEPT ![p] = Append(@, PersistEvent("insert", sm, netId[p]))]
                   /\ UNCHANGED connections
              ELSE /\ last' = Ret("insert", p, b.ok, b.err, 0)
                   /\ connections' = [connections EXCEPT ![p] = b.conns]
                   /\ history' = [history EXCEPT ![p] =
                          IF b.ok
                          THEN @ \o <<PersistEvent("insert", sm, netId[p]), BroadcastEvent(msg)>>
                          ELSE Append(@, PersistEvent("insert", sm, netId[p]))]
    /\ UNCHANGED <<initialized, listener, networks, stats, peers, handlers, netId,
                   syncNet, tasks>>

\* DistributedCollection::update: finds the stored document, overwrites its
\* top-level fields with the patch and stores it again; returns 1, or 0 when
\* there is no such document. Nothing is broadcast.
Update(p, id, patch, io_ok) ==
    /\ Call
    /\ LET found == StorageFind(store[p], blobs[p], CollName, id)
           doc == Patch(found.val, patch)
           r == StorageInsert(store[p], blobs[p], CollName, doc, io_ok)
       IN  IF ~found.some
           THEN /\ last' = Ret("update", p, TRUE, "", 0)
                /\ UNCHANGED <<store, blobs, history>>
           ELSE /\ store' = [store EXCEPT ![p] = r.files]
                /\ blobs' = [blobs EXCEPT ![p] = r.blobs]
                /\ IF r.ok
                   THEN /\ last' = Ret("update", p, TRUE, "", 1)
                        /\ history' = [history EXCEPT ![p] =
                               Append(@, PersistEvent("update", doc, netId[p]))]
                   ELSE /\ last' = Ret("update", p, FALSE, r.err, 0)
                        /\ UNCHANGED history
    /\ UNCHANGED <<initialized, listener, networks, stats, peers, connections, handlers,
                   netId, syncNet, tasks, now>>

\* DistributedCollection::delete: deletes through the storage and returns 1.
\* Nothing is broadcast and no tombstone is kept.
Delete(p, id) ==
    /\ Call
    /\ LET r == StorageDelete(store[p], blobs[p], id)
       IN  /\ store' = [store EXCEPT ![p] = r.files]
           /\ blobs' = [blobs EXCEPT ![p] = r.blobs]
    /\ history' = [history EXCEPT ![p] = Append(@, RemoveEvent(id, netId[p]))]
    /\ last' = Ret("delete", p, TRUE, "", 1)
    /\ UNCHANGED <<initialized, listener, networks, stats, peers, connections, handlers,
                   netId, syncNet, tasks, now>>

\* DistributedCollection::find
find(p, id) == StorageFind(store[p], blobs[p], CollName, id)

\* DistributedCollection::attach_to_network: records the network id, adds the
\* collection to the network (which broadcasts the announcement) and, when
\* that succeeded, stamps the sync state. The result notes whether the
\* network had the collection before the call.
AttachToNetwork(p, n) ==
    /\ Call
    /\ netId' = [netId EXCEPT ![p] = Some(n)]
    /\ LET r == add_collection_to_network(networks[p], stats[p], connections[p],
                                          initialized[p], p, n, CollName, now)
       IN  /\ networks' = [networks EXCEPT ![p] = r.nets]
           /\ stats' = [stats EXCEPT ![p] = r.sts]
           /\ connections' = [connections EXCEPT ![p] = r.conns]
           /\ history' = [history EXCEPT ![p] =
                  IF r.ok THEN Append(@, BroadcastEvent(r.msg)) ELSE @]
           /\ syncNet' = [syncNet EXCEPT ![p] = IF r.ok THEN n ELSE @]
           /\ last' = [op |-> "attach_to_network", peer |-> p, ok |-> r.ok, err |-> r.err,
                       n |-> 0,
                       had |-> n \in DOMAIN networks[p] /\ CollName \in networks[p][n].collections]
    /\ UNCHANGED <<initialized, listener, peers, handlers, store, blobs, tasks, now>>

\* DistributedCollection::detach_from_network
DetachFromNetwork(p) ==
    /\ Call
    /\ LET r == IF netId[p].some
                THEN remove_collection_from_network(networks[p], stats[p], netId[p].val, CollName)
                ELSE [nets |-> networks[p], sts |-> stats[p]]
       IN  /\ networks' = [networks EXCEPT ![p] = r.nets]
           /\ stats' = [stats EXCEPT ![p] = r.sts]
    /\ netId' = [netId EXCEPT ![p] = NoneNet]
    /\ last' = Ret("detach_from_network", p, TRUE, "", 0)
    /\ UNCHANGED <<initialized, listener, peers, connections, handlers, syncNet, store,
                   blobs, tasks, history, now>>

\* ------------------------------------------------------- specification

Init == SysInit /\ MergeIdle /\ ClockIdle /\ ResolveIdle /\ KeysIdle /\ StoreIdle /\ NetIdle
        /\ ConcIdle

Next ==
    \/ \E p \in Peers : Initialize(p) /\ UNCHANGED <<mvars, xvars>>
    \/ \E p \in Peers, n \in NetIds, c \in CfgCollections : CreateNetwork(p, n, c) /\ UNCHANGED <<mvars, xvars>>
    \/ \E p \in Peers, n \in NetIds, b \in BootLists : JoinNetwork(p, n, b) /\ UNCHANGED <<mvars, xvars>>
    \/ \E p \in Peers, n \in NetIds : LeaveNetwork(p, n) /\ UNCHANGED <<mvars, xvars>>
    \/ \E p \in Peers, mt \in MsgTypes, h \in HandlerIds : OnMessage(p, mt, h) /\ UNCHANGED <<mvars, xvars>>
    \/ \E p \in Peers : Shutdown(p) /\ UNCHANGED <<mvars, xvars>>
    \/ \E i \in 1..MaxTasks : TaskConnect(i) /\ UNCHANGED <<mvars, xvars>>
    \/ \E i \in 1..MaxTasks : TaskReadLine(i) /\ UNCHANGED <<mvars, xvars>>
    \/ \E p \in Peers, d \in UserDocs, io \in BOOLEAN, t \in now..MaxTime :
          Insert(p, d, io, t) /\ UNCHANGED <<mvars, xvars>>
    \/ \E p \in Peers, id \in DocIds, u \in UserPatches, io \in BOOLEAN :
          Update(p, id, u, io) /\ UNCHANGED <<mvars, xvars>>
    \/ \E p \in Peers, id \in DocIds : Delete(p, id) /\ UNCHANGED <<mvars, xvars>>
    \/ \E p \in Peers, n \in NetIds : AttachToNetwork(p, n) /\ UNCHANGED <<mvars, xvars>>
    \/ \E p \in Peers : DetachFromNetwork(p) /\ UNCHANGED <<mvars, xvars>>

Spec == Init /\ [][Next]_vars

\* ------------------------------------------- storage with a master key

StoreDocId == "u1"

\* The key pairs a client can hand to FileStorage::set_master_key: the pairs
\* it built itself and a pair PQCKeyPair::generate returned, whose public and
\* private keys are independent random strings.
StoreKeyPairs == UserKeyPairs \cup {KeyPair(GenId, "active", NoExpiry, 1, 2)}

\* The ids the calls are made on: two ids, and the empty string.
StoreIds == {StoreDocId, "u2", ""}

\* Documents handed to Storage.insert: credentials with sensitive fields, a
\* payload key that ends in "_encrypted", a top-level field named encrypted,
\* a MEMORY document with a blob, a second id, the empty id with and without
\* a blob, and no id.
StorageDocs ==
    {[id |-> StoreDocId,
      payload |-> [username |-> JStr("bob"), hash |-> JStr("h"), salt |-> JStr("s")]],
     [id |-> StoreDocId,
      payload |-> [username |-> JStr("bob"), flag_encrypted |-> JTrue]],
     [id |-> StoreDocId, encrypted |-> TRUE,
      payload |-> [username |-> JStr("bob")]],
     [id |-> StoreDocId, entryType |-> "MEMORY",
      payload |-> [blob |-> JStr("B"), source |-> JStr("web")]],
     [id |-> "u2", payload |-> [username |-> JStr("eve")]],
     [id |-> "", payload |-> [username |-> JStr("bob")]],
     [id |-> "", entryType |-> "MEMORY", payload |-> [blob |-> JStr("B")]],
     [payload |-> [username |-> JStr("bob")]]}

\* Documents handed to Collection.insert: sensitive fields under a payload
\* field, sensitive fields at the top of the document, and no id.
ClientDocs ==
    {[id |-> StoreDocId,
      payload |-> [username |-> JStr("bob"), hash |-> JStr("h"), salt |-> JStr("s")]],
     [id |-> StoreDocId, username |-> JStr("bob"), hash |-> JStr("h"), salt |-> JStr("s")],
     [username |-> JStr("bob")]}

\* Patches handed to Storage.update: a new field, an id, another entryType.
StorePatches == {[status |-> "x"], [id |-> "u2"], [entryType |-> "NOTE"]}

StoreInit ==
    /\ StoreIdle
    /\ NetIdle
    /\ ConcIdle
    /\ KeysIdle
    /\ SysInit
    /\ MergeIdle
    /\ ClockIdle
    /\ ResolveIdle

\* FileStorage::set_master_key
StSetMasterKey(kp) ==
    /\ SetMasterKey(kp)
    /\ slast' = [NoCall EXCEPT !.op = "set_master_key"]
    /\ UNCHANGED <<sfiles, sblobs, sblobdir, sorig>>

\* What a call of insert leaves in the collection directory c and returns.
StoreWrite(via, c, user, doc, io_ok) ==
    \E r \in {storage_insert(Manager, ktime, sfiles[c], sblobs[c], c, doc, io_ok)} :
        /\ KeyCall
        /\ sfiles' = [sfiles EXCEPT ![c] = r.files]
        /\ sblobs' = [sblobs EXCEPT ![c] = r.blobs]
        /\ sblobdir' = [sblobdir EXCEPT ![c] = @ \/ r.saved]
        /\ sorig' = IF r.ok
                    THEN [sorig EXCEPT ![c] = [some |-> TRUE, via |-> via, doc |-> doc,
                                               user |-> user, key |-> master_key]]
                    ELSE sorig
        /\ slast' = [NoCall EXCEPT !.op = "insert", !.collection = c,
                                   !.id = IF "id" \in DOMAIN doc THEN doc["id"] ELSE "",
                                   !.ok = r.ok, !.err = r.err]
        /\ UNCHANGED <<master_key, key_cache, ktime, kgen, issued, kres>>

\* Storage.insert(c, d)
StInsert(c, d, io_ok) == StoreWrite("storage", c, d, d, io_ok)

\* DistributedCollection::insert(d) of the collection c of peer a-1, attached
\* to no network, over this storage: the client's document becomes the
\* payload of the document handed to Storage.insert.
StCollectionInsert(c, d) ==
    StoreWrite("collection", c, d, ToStorageMap(NewDistributedDoc("a-1", d, ktime)), TRUE)

\* Storage.find(c, id)
StFind(c, id) ==
    \E r \in {storage_find(Manager, ktime, sfiles[c], sblobs[c], c, id)} :
        /\ KeyCall
        /\ slast' = [NoCall EXCEPT !.op = "find", !.collection = c, !.id = id,
                                   !.ok = r.ok, !.err = r.err, !.doc = r.doc]
        /\ UNCHANGED <<sfiles, sblobs, sblobdir, sorig>>
        /\ UNCHANGED <<master_key, key_cache, ktime, kgen, issued, kres>>

\* Storage.update(c, id, patch)
StUpdate(c, id, patch) ==
    \E r \in {storage_update(Manager, ktime, sfiles[c], sblobs[c], c, id, patch)} :
        /\ KeyCall
        /\ sfiles' = [sfiles EXCEPT ![c] = r.files]
        /\ sblobs' = [sblobs EXCEPT ![c] = r.blobs]
        /\ sblobdir' = [sblobdir EXCEPT ![c] = @ \/ r.saved]
        /\ sorig' = [sorig EXCEPT ![c] = NoInsert]
        /\ slast' = [NoCall EXCEPT !.op = "update", !.collection = c, !.id = id,
                                   !.patch = patch, !.ok = r.ok, !.err = r.err]
        /\ UNCHANGED <<master_key, key_cache, ktime, kgen, issued, kres>>

\* Storage.delete(c, id)
StDelete(c, id) ==
    \E r \in {storage_delete(sfiles[c], sblobs[c], sblobdir[c], id)} :
        /\ KeyCall
        /\ sfiles' = [sfiles EXCEPT ![c] = r.files]
        /\ sblobs' = [sblobs EXCEPT ![c] = r.blobs]
        /\ sorig' = [sorig EXCEPT ![c] = NoInsert]
        /\ slast' = [NoCall EXCEPT !.op = "delete", !.collection = c, !.id = id,
                                   !.ok = r.ok, !.err = r.err]
        /\ UNCHANGED sblobdir
        /\ UNCHANGED <<master_key, key_cache, ktime, kgen, issued, kres>>

\* Storage.find_all(c)
StFindAll(c) ==
    \E r \in {storage_find_all(Manager, ktime, sfiles[c], sblobs[c], c)} :
        /\ KeyCall
        /\ slast' = [NoCall EXCEPT !.op = "find_all", !.collection = c,
                                   !.ok = r.ok, !.err = r.err, !.docs = r.docs]
        /\ UNCHANGED <<sfiles, sblobs, sblobdir, sorig>>
        /\ UNCHANGED <<master_key, key_cache, ktime, kgen, issued, kres>>

StoreNext ==
    \/ \E kp \in StoreKeyPairs : StSetMasterKey(kp) /\ UNCHANGED <<mvars, svars, cvars, rvars, nvars, yvars>>
    \/ \E c \in StoreCollections, d \in StorageDocs, io \in BOOLEAN :
          StInsert(c, d, io) /\ UNCHANGED <<mvars, svars, cvars, rvars, nvars, yvars>>
    \/ \E c \in StoreCollections, d \in ClientDocs :
          StCollectionInsert(c, d) /\ UNCHANGED <<mvars, svars, cvars, rvars, nvars, yvars>>
    \/ \E c \in StoreCollections, id \in StoreIds :
          StFind(c, id) /\ UNCHANGED <<mvars, svars, cvars, rvars, nvars, yvars>>
    \/ \E c \in StoreCollections, id \in StoreIds, u \in StorePatches :
          StUpdate(c, id, u) /\ UNCHANGED <<mvars, svars, cvars, rvars, nvars, yvars>>
    \/ \E c \in StoreCollections, id \in StoreIds :
          StDelete(c, id) /\ UNCHANGED <<mvars, svars, cvars, rvars, nvars, yvars>>
    \/ \E c \in StoreCollections : StFindAll(c) /\ UNCHANGED <<mvars, svars, cvars, rvars, nvars, yvars>>

SpecStore == StoreInit /\ [][StoreNext]_vars

\* ------------------------------- one network manager, concurrent callers

\* The peers a bootstrap task can have recorded a connection to.
RemotePeers == {"r1", "r2", "r3"}

\* Messages handed to broadcast_message and send_to_peer.
NetMsgs ==
    {[msg_type |-> "Operation", network_id |-> "n1", sender_id |-> "a-1", timestamp |-> 1],
     [msg_type |-> "Heartbeat", network_id |-> "n1", sender_id |-> "a-1", timestamp |-> 2]}

\* serde_json::to_string(&msg): the text of the message on one line.
to_string(msg) == <<"json", msg>>

\* format!("{}\n", data).as_bytes(): what one send writes to a stream.
FrameBytes(data) == <<data, "\n">>

\* A connected TcpStream: whether the remote end still has it open, and what
\* the remote end has read from it.
OpenSocket == [open |-> TRUE, rx |-> <<>>]

\* stream.write_all(bytes) on a socket: on an open socket the bytes arrive and
\* the write succeeds; on a socket the remote end has closed nothing arrives,
\* and the write fails or, while the kernel has not seen the reset yet,
\* succeeds.
write_all(sock, bytes) ==
    IF sock.open
    THEN {[ok |-> TRUE, sock |-> [sock EXCEPT !.rx = @ \o bytes]]}
    ELSE {[ok |-> b, sock |-> sock] : b \in BOOLEAN}

\* The sockets after the write of bytes to every one of them.
WriteEach(conns, bytes) ==
    [r \in DOMAIN conns |-> (CHOOSE w \in write_all(conns[r], bytes) : TRUE).sock]

broadcast_until_error(conns, init, msg) ==
    IF ~init
    THEN [ok |-> FALSE, err |-> "not initialized", conns |-> conns]
    ELSE [ok |-> \A r \in DOMAIN conns : conns[r].open,
          err |-> IF \A r \in DOMAIN conns : conns[r].open THEN "" ELSE "io error",
          conns |-> WriteEach(conns, FrameBytes(to_string(msg)))]

\* NetworkManager::broadcast_message on the connection table conns: refused
\* when the manager is not initialized; else the frame is written to every
\* stream, the result of each write is dropped, and the call succeeds.
broadcast_frames(conns, init, msg) ==
    IF ~init
    THEN [ok |-> FALSE, err |-> "not initialized", conns |-> conns]
    ELSE [ok |-> TRUE, err |-> "", conns |-> WriteEach(conns, FrameBytes(to_string(msg)))]

send_to_every_peer(conns, init, peer_id, msg) ==
    IF ~init
    THEN {[ok |-> FALSE, err |-> "not initialized", conns |-> conns]}
    ELSE {[ok |-> TRUE, err |-> "", conns |-> WriteEach(conns, FrameBytes(to_string(msg)))]}

\* NetworkManager::send_to_peer: refused when the manager is not initialized;
\* the frame is written to the stream recorded for peer_id and a failed write
\* is returned; without a stream for peer_id the call fails.
send_to_peer(conns, init, peer_id, msg) ==
    IF ~init
    THEN {[ok |-> FALSE, err |-> "not initialized", conns |-> conns]}
    ELSE IF peer_id \in DOMAIN conns
         THEN {[ok |-> w.ok, err |-> IF w.ok THEN "" ELSE "io error",
                conns |-> [conns EXCEPT ![peer_id] = w.sock]] :
                   w \in write_all(conns[peer_id], FrameBytes(to_string(msg)))}
         ELSE {[ok |-> FALSE, err |-> "peer not connected", conns |-> conns]}

initialize_unchecked(init) == "bind"

\* initialize() after it has taken the write lock: returns at once when the
\* flag is set, else goes on to bind a listener.
initialize_check(init) == IF init THEN "return" ELSE "bind"

\* A manager some time after NetworkManager::new: not initialized, or
\* initialized with its listener bound; the connection table holds the
\* streams the tasks of earlier join_network calls have recorded, which stay
\* in the table over a shutdown when their task ends after it; another task
\* of those calls may still be waiting for the reply to its greeting.
NetInit ==
    /\ nm_initialized \in BOOLEAN
    /\ nm_listener = (IF nm_initialized THEN 1 ELSE NoListener)
    /\ nm_bound = (IF nm_initialized THEN {1} ELSE {})
    /\ nm_lock = 0
    /\ nm_calls = [i \in InitCalls |-> [pc |-> "new", ok |-> FALSE, bind |-> FALSE]]
    /\ nm_connections \in {[r \in rs |-> OpenSocket] : rs \in SUBSET RemotePeers}
    /\ nm_shutdown = [pc |-> "idle", n |-> 0]
    /\ nm_last = NoSend
    /\ nm_nops = 0
    /\ nm_tasks \in {{}} \cup {{r} : r \in RemotePeers \ DOMAIN nm_connections}
    /\ ConcIdle
    /\ SysInit
    /\ MergeIdle
    /\ ClockIdle
    /\ ResolveIdle
    /\ KeysIdle
    /\ StoreIdle

NetCall == nm_nops < MaxNetOps /\ nm_nops' = nm_nops + 1

\* initialize(), first step: self.initialized.write().await returns the
\* guard, which the call holds until it returns.
InitAcquire(i) ==
    /\ nm_calls[i].pc = "new"
    /\ nm_lock = 0
    /\ nm_lock' = i
    /\ nm_calls' = [nm_calls EXCEPT ![i].pc = "held"]
    /\ UNCHANGED <<nm_initialized, nm_listener, nm_bound, nm_connections, nm_shutdown,
                   nm_last, nm_nops, nm_tasks>>

\* initialize(), second step: the early return when the flag is set, else
\* TcpListener::bind on an ephemeral port of the loopback interface and the
\* store of the listener.
InitBind(i) ==
    /\ nm_calls[i].pc = "held"
    /\ IF initialize_check(nm_initialized) = "return"
       THEN /\ nm_calls' = [nm_calls EXCEPT ![i] = [pc |-> "done", ok |-> TRUE, bind |-> FALSE]]
            /\ nm_lock' = 0
            /\ UNCHANGED <<nm_listener, nm_bound>>
       ELSE /\ nm_listener' = Cardinality(nm_bound) + 1
            /\ nm_bound' = nm_bound \cup {Cardinality(nm_bound) + 1}
            /\ nm_calls' = [nm_calls EXCEPT ![i] = [pc |-> "bound", ok |-> FALSE, bind |-> TRUE]]
            /\ UNCHANGED nm_lock
    /\ UNCHANGED <<nm_initialized, nm_connections, nm_shutdown, nm_last, nm_nops, nm_tasks>>

\* initialize(), last step: the flag is set, the listener is read back and
\* unwrapped for the log line, which panics when a shutdown has taken it in
\* between; else the call returns Ok. The guard is dropped either way.
InitSet(i) ==
    /\ nm_calls[i].pc = "bound"
    /\ nm_initialized' = TRUE
    /\ nm_calls' = [nm_calls EXCEPT ![i] =
           IF nm_listener = NoListener
           THEN [pc |-> "panicked", ok |-> FALSE, bind |-> TRUE]
           ELSE [pc |-> "done", ok |-> TRUE, bind |-> TRUE]]
    /\ nm_lock' = 0
    /\ UNCHANGED <<nm_listener, nm_bound, nm_connections, nm_shutdown, nm_last, nm_nops, nm_tasks>>

\* shutdown(), first statement: the flag is cleared under the write lock,
\* which is dropped at the end of the statement.
ShutdownFlag ==
    /\ NetCall
    /\ nm_shutdown.pc = "idle"
    /\ nm_lock = 0
    /\ nm_initialized' = FALSE
    /\ nm_shutdown' = [pc |-> "take", n |-> nm_shutdown.n + 1]
    /\ UNCHANGED <<nm_listener, nm_bound, nm_lock, nm_calls, nm_connections, nm_last, nm_tasks>>

\* shutdown(), the rest: the listener is taken and dropped, and the
\* connection table is cleared.
ShutdownTake ==
    /\ nm_shutdown.pc = "take"
    /\ nm_listener' = NoListener
    /\ nm_connections' = EmptyMap
    /\ nm_shutdown' = [nm_shutdown EXCEPT !.pc = "idle"]
    /\ UNCHANGED <<nm_initialized, nm_bound, nm_lock, nm_calls, nm_last, nm_nops, nm_tasks>>

\* The remote end of the connection to r closes its socket.
RemoteClose(r) ==
    /\ NetCall
    /\ r \in DOMAIN nm_connections
    /\ nm_connections[r].open
    /\ nm_connections' = [nm_connections EXCEPT ![r].open = FALSE]
    /\ UNCHANGED <<nm_initialized, nm_listener, nm_bound, nm_lock, nm_calls, nm_shutdown,
                   nm_last, nm_tasks>>

\* The bootstrap task for r reads a reply that starts with KNIRV: and records
\* the stream under the id r (the peer table is not part of this manager
\* state).
TaskRecord(r) ==
    /\ r \in nm_tasks
    /\ nm_tasks' = nm_tasks \ {r}
    /\ nm_connections' = With(nm_connections, r, OpenSocket)
    /\ UNCHANGED <<nm_initialized, nm_listener, nm_bound, nm_lock, nm_calls, nm_shutdown,
                   nm_last, nm_nops>>

\* The connection table with the sockets of the peers in closing closed.
Closed(conns, closing) ==
    [r \in DOMAIN conns |-> IF r \in closing THEN [conns[r] EXCEPT !.open = FALSE]
                                              ELSE conns[r]]

\* broadcast_message(_, msg), while the remote ends in closing close their
\* sockets before the write to them.
NmBroadcast(msg, closing) ==
    /\ NetCall
    /\ closing \subseteq DOMAIN nm_connections
    /\ \E b \in {broadcast_frames(Closed(nm_connections, closing), nm_initialized, msg)} :
          /\ nm_connections' = b.conns
          /\ nm_last' = [op |-> "broadcast_message", peer |-> "", msg |-> msg,
                         ok |-> b.ok, err |-> b.err]
    /\ UNCHANGED <<nm_initialized, nm_listener, nm_bound, nm_lock, nm_calls, nm_shutdown, nm_tasks>>

\* send_to_peer(peer_id, _, msg)
NmSendToPeer(peer_id, msg) ==
    /\ NetCall
    /\ \E s \in send_to_peer(nm_connections, nm_initialized, peer_id, msg) :
          /\ nm_connections' = s.conns
          /\ nm_last' = [op |-> "send_to_peer", peer |-> peer_id, msg |-> msg,
                         ok |-> s.ok, err |-> s.err]
    /\ UNCHANGED <<nm_initialized, nm_listener, nm_bound, nm_lock, nm_calls, nm_shutdown, nm_tasks>>

NetNext ==
    \/ \E i \in InitCalls : InitAcquire(i) /\ UNCHANGED <<mvars, svars, cvars, rvars, kvars, stvars, yvars>>
    \/ \E i \in InitCalls : InitBind(i) /\ UNCHANGED <<mvars, svars, cvars, rvars, kvars, stvars, yvars>>
    \/ \E i \in InitCalls : InitSet(i) /\ UNCHANGED <<mvars, svars, cvars, rvars, kvars, stvars, yvars>>
    \/ ShutdownFlag /\ UNCHANGED <<mvars, svars, cvars, rvars, kvars, stvars, yvars>>
    \/ ShutdownTake /\ UNCHANGED <<mvars, svars, cvars, rvars, kvars, stvars, yvars>>
    \/ \E r \in RemotePeers : RemoteClose(r) /\ UNCHANGED <<mvars, svars, cvars, rvars, kvars, stvars, yvars>>
    \/ \E r \in RemotePeers : TaskRecord(r) /\ UNCHANGED <<mvars, svars, cvars, rvars, kvars, stvars, yvars>>
    \/ \E msg \in NetMsgs, closing \in SUBSET RemotePeers :
          NmBroadcast(msg, closing) /\ UNCHANGED <<mvars, svars, cvars, rvars, kvars, stvars, yvars>>
    \/ \E r \in RemotePeers, msg \in NetMsgs :
          NmSendToPeer(r, msg) /\ UNCHANGED <<mvars, svars, cvars, rvars, kvars, stvars, yvars>>

SpecNet == NetInit /\ [][NetNext]_vars

\* ------------------------------------ the collection registry, database.rs

\* Names handed to DB::collection.
DbNames == {"mem", "notes", ""}

insert_always(colls, made, name) ==
    [colls |-> With(colls, name, Len(made) + 1),
     made |-> Append(made, [name |-> name, network_id |-> NoneNet]),
     handle |-> Len(made) + 1]

\* collections.entry(name).or_insert_with(|| Arc::new(RwLock::new(
\* DistributedCollection::new(name, ..)))).clone(): the handle registered
\* under the name, which is a newly constructed collection when there was
\* none.
or_insert_with(colls, made, name) ==
    IF name \in DOMAIN colls
    THEN [colls |-> colls, made |-> made, handle |-> colls[name]]
    ELSE [colls |-> With(colls, name, Len(made) + 1),
          made |-> Append(made, [name |-> name, network_id |-> NoneNet]),
          handle |-> Len(made) + 1]

DbInit ==
    /\ DbIdle
    /\ RaceIdle
    /\ LockIdle
    /\ NetIdle
    /\ StoreIdle
    /\ KeysIdle
    /\ SysInit
    /\ MergeIdle
    /\ ClockIdle
    /\ ResolveIdle

\* DB::collection(name): refuses the empty name, else calls
\* DistributedDatabase::collection, which waits for the write lock.
DbCall(i, name) ==
    /\ db_calls[i].pc = "new"
    /\ db_calls' = [db_calls EXCEPT ![i] =
           IF name = ""
           THEN [pc |-> "done", name |-> name, ok |-> FALSE, handle |-> 0]
           ELSE [pc |-> "wait", name |-> name, ok |-> FALSE, handle |-> 0]]
    /\ UNCHANGED <<db_collections, db_made, db_lock>>

\* self.collections.write().await returns the guard.
DbLock(i) ==
    /\ db_calls[i].pc = "wait"
    /\ db_lock = 0
    /\ db_lock' = i
    /\ db_calls' = [db_calls EXCEPT ![i].pc = "held"]
    /\ UNCHANGED <<db_collections, db_made>>

\* The entry is looked up or filled, the handle is cloned and returned, and
\* the guard is dropped.
DbEntry(i) ==
    /\ db_calls[i].pc = "held"
    /\ \E r \in {or_insert_with(db_collections, db_made, db_calls[i].name)} :
          /\ db_collections' = r.colls
          /\ db_made' = r.made
          /\ db_calls' = [db_calls EXCEPT ![i] =
                 [pc |-> "done", name |-> @.name, ok |-> TRUE, handle |-> r.handle]]
    /\ db_lock' = 0

\* CollectionAdapter::attach_to_network(n) through the handle a caller got:
\* the collection behind the handle records the network id.
DbAttach(i, n) ==
    /\ db_calls[i].pc = "done"
    /\ db_calls[i].ok
    /\ db_made[db_calls[i].handle].network_id # Some(n)
    /\ db_made' = [db_made EXCEPT ![db_calls[i].handle].network_id = Some(n)]
    /\ UNCHANGED <<db_collections, db_lock, db_calls>>

DbNext ==
    \/ \E i \in DbCallers, name \in DbNames :
          DbCall(i, name) /\ UNCHANGED <<mvars, svars, cvars, rvars, kvars, stvars, nvars, uvars, lvars>>
    \/ \E i \in DbCallers : DbLock(i) /\ UNCHANGED <<mvars, svars, cvars, rvars, kvars, stvars, nvars, uvars, lvars>>
    \/ \E i \in DbCallers : DbEntry(i) /\ UNCHANGED <<mvars, svars, cvars, rvars, kvars, stvars, nvars, uvars, lvars>>
    \/ \E i \in DbCallers, n \in NetIds :
          DbAttach(i, n) /\ UNCHANGED <<mvars, svars, cvars, rvars, kvars, stvars, nvars, uvars, lvars>>

SpecDb == DbInit /\ [][DbNext]_vars

\* ------------------------- concurrent updates of one document, storage.rs

\* Patches handed to update: each writes another top-level field.
RacePatches ==
    {[status |-> "x"], [owner |-> "o"], [payload |-> [blob |-> "B2", note |-> "n2"]]}

RaceInit ==
    /\ RaceIdle
    /\ DbIdle
    /\ LockIdle
    /\ NetIdle
    /\ StoreIdle
    /\ KeysIdle
    /\ SysInit
    /\ MergeIdle
    /\ ClockIdle
    /\ ResolveIdle

\* update(id, patch), first half: find reads the document and the patch is
\* applied to the copy the call holds; no lock is taken. A call that finds
\* nothing returns at once.
UpFind(i, patch) ==
    /\ u_calls[i].pc = "new"
    /\ \E f \in {StorageFind(u_files, u_blobs, "mem", RaceDoc["id"])} :
          u_calls' = [u_calls EXCEPT ![i] =
              IF f.some
              THEN [pc |-> "found", patch |-> patch, doc |-> Patch(f.val, patch), ok |-> FALSE]
              ELSE [pc |-> "done", patch |-> patch, doc |-> EmptyMap, ok |-> FALSE]]
    /\ UNCHANGED <<u_files, u_blobs, u_last>>

\* insert of the patched copy, up to save_blob: the blob file is written
\* (when the copy is a MEMORY entry with a blob).
UpSaveBlob(i) ==
    /\ u_calls[i].pc = "found"
    /\ \E r \in {StorageInsert(u_files, u_blobs, "mem", u_calls[i].doc, TRUE)} :
          u_blobs' = r.blobs
    /\ u_calls' = [u_calls EXCEPT ![i].pc = "saved"]
    /\ UNCHANGED <<u_files, u_last>>

\* insert of the patched copy, the rest: the document file is written and
\* the call returns.
UpWrite(i) ==
    /\ u_calls[i].pc = "saved"
    /\ \E r \in {StorageInsert(u_files, u_blobs, "mem", u_calls[i].doc, TRUE)} :
          /\ u_files' = r.files
          /\ u_calls' = [u_calls EXCEPT ![i].pc = "done", ![i].ok = r.ok]
    /\ UNCHANGED <<u_blobs, u_last>>

\* find(id) by another caller.
RaceFind ==
    /\ u_last' = StorageFind(u_files, u_blobs, "mem", RaceDoc["id"])
    /\ UNCHANGED <<u_files, u_blobs, u_calls>>

RaceNext ==
    \/ \E i \in Updaters, patch \in RacePatches :
          UpFind(i, patch) /\ UNCHANGED <<mvars, svars, cvars, rvars, kvars, stvars, nvars, dvars, lvars>>
    \/ \E i \in Updaters : UpSaveBlob(i) /\ UNCHANGED <<mvars, svars, cvars, rvars, kvars, stvars, nvars, dvars, lvars>>
    \/ \E i \in Updaters : UpWrite(i) /\ UNCHANGED <<mvars, svars, cvars, rvars, kvars, stvars, nvars, dvars, lvars>>
    \/ RaceFind /\ UNCHANGED <<mvars, svars, cvars, rvars, kvars, stvars, nvars, dvars, lvars>>

SpecRace == RaceInit /\ [][RaceNext]_vars

\* ------------------------------ the locks of the network manager, network.rs

\* The one remote peer of this specification, and the network the calls name.
LockPeer == "r1"

LockNet == "n1"

\* The managers no call is running on: initialize has run or not, the network
\* is unknown, registered, or registered with the collection attached, and the
\* connection to the remote peer is registered or not.
LockManagers ==
    {[initialized |-> i, listener |-> i,
      networks |-> IF n = 0 THEN EmptyMap ELSE With(EmptyMap, LockNet, IF n = 1 THEN {} ELSE {CollName}),
      stats |-> IF n = 0 THEN EmptyMap ELSE With(EmptyMap, LockNet, n - 1),
      connections |-> IF c THEN With(EmptyMap, LockPeer, <<>>) ELSE EmptyMap,
      peers |-> IF c THEN {LockPeer} ELSE {}] :
        i \in BOOLEAN, n \in 0..2, c \in BOOLEAN}

\* The calls of the NetworkManager trait that take locks and may suspend.
LockOps ==
    {"initialize", "create_network", "join_network", "leave_network",
     "add_collection_to_network", "remove_collection_from_network",
     "broadcast_message", "send_to_peer", "shutdown"}

\* Where a call starts: with initialize, with the networks lock, with the
\* initialized check of a send, or with shutdown's first statement.
FirstPc(op) ==
    CASE op \in {"initialize", "create_network", "join_network"} -> "i_lock"
      [] op \in {"leave_network", "add_collection_to_network",
                 "remove_collection_from_network"} -> "n_lock"
      [] op \in {"broadcast_message", "send_to_peer"} -> "b_init"
      [] OTHER -> "sh_flag"

\* Where a call goes on after its initialize().await? returned Ok.
AfterInit(op) == IF op = "initialize" THEN "ret" ELSE "n_lock"

\* lock.read().await returns once no writer holds the lock; lock.write().await
\* once nobody holds it.
Free(rw, l, m) ==
    IF m = "w" THEN rw[l].w = NoHolder /\ rw[l].r = {} ELSE rw[l].w = NoHolder

Acquire(rw, l, m, t) ==
    IF m = "w" THEN [rw EXCEPT ![l].w = t] ELSE [rw EXCEPT ![l].r = @ \cup {t}]

\* A call that never gives its guards back.
KeepGuards(rw, ls, t) == rw

\* The guards of the locks ls go out of scope.
DropGuards(rw, ls, t) ==
    [l \in DOMAIN rw |->
        IF l \in ls
        THEN [w |-> IF rw[l].w = t THEN NoHolder ELSE rw[l].w, r |-> rw[l].r \ {t}]
        ELSE rw[l]]

\* The locks task t holds.
HeldBy(rw, t) == {l \in DOMAIN rw : rw[l].w = t \/ t \in rw[l].r}

\* A stream whose mutex any task may take at any time.
MutexIgnored(mx) == TRUE

\* stream.lock().await returns once nobody holds the stream's mutex.
MutexFree(mx) == mx = NoHolder

\* The lock the task waits for at its position, and the mode; a task that
\* waits for the socket or has returned waits for no lock.
Need(k) ==
    CASE k.pc = "i_lock" -> <<"initialized", "w">>
      [] k.pc = "i_store" -> <<"listener", "w">>
      [] k.pc = "i_set" -> <<"listener", "r">>
      [] k.pc = "n_lock" -> <<"networks", "w">>
      [] k.pc = "s_lock" -> <<"stats", "w">>
      [] k.pc = "b_init" -> <<"initialized", "r">>
      [] k.pc = "b_conns" -> <<"connections", "r">>
      [] k.pc = "m_lock" -> <<"stream", "m">>
      [] k.pc = "sh_flag" -> <<"initialized", "w">>
      [] k.pc = "sh_take" -> <<"listener", "w">>
      [] k.pc = "sh_conns" -> <<"connections", "w">>
      [] k.pc = "c_lock" -> <<"connections", "w">>
      [] k.pc = "p_lock" -> <<"peers", "w">>
      [] OTHER -> <<"", "">>

\* The positions at which a task is suspended on the socket: connect and the
\* greeting, read_line, and the two halves of write_all.
IoPcs == {"connect", "read", "w1", "w2"}

LockInit ==
    /\ l_mgr \in LockManagers
    /\ l_rw = [l \in Locks |-> [w |-> NoHolder, r |-> {}]]
    /\ l_mx = NoHolder
    /\ l_tasks = [t \in LockTaskIds |-> NoTask]
    /\ l_obs = NoObs
    /\ DbIdle
    /\ RaceIdle
    /\ NetIdle
    /\ StoreIdle
    /\ KeysIdle
    /\ SysInit
    /\ MergeIdle
    /\ ClockIdle
    /\ ResolveIdle

\* A caller starts one of the calls.
LockCall(t, op) ==
    /\ l_tasks[t].pc = "idle"
    /\ l_tasks' = [l_tasks EXCEPT ![t] = [op |-> op, pc |-> FirstPc(op), ok |-> TRUE]]
    /\ UNCHANGED <<l_mgr, l_rw, l_mx, l_obs>>

\* initialize, line 66-69: the write guard of initialized is taken; when the
\* flag is set the call returns Ok and the guard is dropped.
StepInitLock(t) ==
    /\ l_tasks[t].pc = "i_lock"
    /\ Free(l_rw, "initialized", "w")
    /\ IF l_mgr.initialized
       THEN /\ l_tasks' = [l_tasks EXCEPT ![t].pc = AfterInit(l_tasks[t].op)]
            /\ UNCHANGED l_rw
       ELSE /\ l_tasks' = [l_tasks EXCEPT ![t].pc = "i_store"]
            /\ l_rw' = Acquire(l_rw, "initialized", "w", t)
    /\ UNCHANGED <<l_mgr, l_mx, l_obs>>

\* initialize, line 72-73: the listener is bound and stored under the
\* listener lock, which is given back at the end of the statement.
StepInitStore(t) ==
    /\ l_tasks[t].pc = "i_store"
    /\ Free(l_rw, "listener", "w")
    /\ l_mgr' = [l_mgr EXCEPT !.listener = TRUE]
    /\ l_tasks' = [l_tasks EXCEPT ![t].pc = "i_set"]
    /\ UNCHANGED <<l_rw, l_mx, l_obs>>

\* initialize, line 75-103: the flag is set, the stored listener is read and
\* unwrapped (a panic when shutdown took it), and the guard of initialized is
\* dropped.
StepInitSet(t) ==
    /\ l_tasks[t].pc = "i_set"
    /\ Free(l_rw, "listener", "r")
    /\ l_mgr' = [l_mgr EXCEPT !.initialized = TRUE]
    /\ l_tasks' = [l_tasks EXCEPT ![t].pc =
                      IF l_mgr.listener THEN AfterInit(l_tasks[t].op) ELSE "panic",
                                 ![t].ok = l_mgr.listener]
    /\ l_rw' = DropGuards(l_rw, {"initialized"}, t)
    /\ UNCHANGED <<l_mx, l_obs>>

\* The calls on the registry take the write guard of networks first: line 109
\* (create_network), 136 (join_network), 204 (leave_network), 215
\* (add_collection_to_network), 238 (remove_collection_from_network); what
\* follows under the guard up to the next lock is part of the step.
StepNetworksLock(t) ==
    /\ l_tasks[t].pc = "n_lock"
    /\ Free(l_rw, "networks", "w")
    /\ \E op \in {l_tasks[t].op}, known \in {LockNet \in DOMAIN l_mgr.networks} :
          CASE op = "create_network" ->
                 IF known
                 THEN /\ l_tasks' = [l_tasks EXCEPT ![t].pc = "ret"]
                      /\ UNCHANGED <<l_mgr, l_rw>>
                 ELSE /\ l_mgr' = [l_mgr EXCEPT !.networks = With(@, LockNet, {})]
                      /\ l_rw' = Acquire(l_rw, "networks", "w", t)
                      /\ l_tasks' = [l_tasks EXCEPT ![t].pc = "s_lock"]
            [] op = "join_network" ->
                 IF known
                 THEN /\ l_tasks' = [l_tasks EXCEPT ![t].pc = "ret",
                                         ![BootId] = IF l_tasks[BootId].pc = "idle"
                                                     THEN [op |-> "bootstrap", pc |-> "connect", ok |-> TRUE]
                                                     ELSE @]
                      /\ UNCHANGED <<l_mgr, l_rw>>
                 ELSE /\ l_mgr' = [l_mgr EXCEPT !.networks = With(@, LockNet, {})]
                      /\ l_rw' = Acquire(l_rw, "networks", "w", t)
                      /\ l_tasks' = [l_tasks EXCEPT ![t].pc = "s_lock"]
            [] op = "leave_network" ->
                 /\ l_rw' = Acquire(l_rw, "networks", "w", t)
                 /\ l_tasks' = [l_tasks EXCEPT ![t].pc = "s_lock"]
                 /\ UNCHANGED l_mgr
            [] op = "add_collection_to_network" ->
                 /\ l_mgr' = IF known
                             THEN [l_mgr EXCEPT !.networks[LockNet] = @ \cup {CollName}]
                             ELSE l_mgr
                 /\ l_rw' = Acquire(l_rw, "networks", "w", t)
                 /\ l_tasks' = [l_tasks EXCEPT ![t].pc = IF known THEN "s_lock" ELSE "b_init"]
            [] OTHER ->
                 IF known
                 THEN /\ l_mgr' = [l_mgr EXCEPT !.networks[LockNet] = @ \ {CollName}]
                      /\ l_rw' = Acquire(l_rw, "networks", "w", t)
                      /\ l_tasks' = [l_tasks EXCEPT ![t].pc = "s_lock"]
                 ELSE /\ l_tasks' = [l_tasks EXCEPT ![t].pc = "ret"]
                      /\ UNCHANGED <<l_mgr, l_rw>>
    /\ UNCHANGED <<l_mx, l_obs>>

\* The write guard of stats is taken while the guard of networks is held:
\* line 117, 151, 205, 219, 242. Every call but add_collection_to_network
\* returns after it and drops both guards; add_collection_to_network drops
\* the stats guard (line 223) and goes on to broadcast under the networks
\* guard.
StepStatsLock(t) ==
    /\ l_tasks[t].pc = "s_lock"
    /\ Free(l_rw, "stats", "w")
    /\ \E op \in {l_tasks[t].op} :
          /\ l_mgr' =
                CASE op \in {"create_network", "join_network"} ->
                       [l_mgr EXCEPT !.stats = With(@, LockNet, 0)]
                  [] op = "leave_network" ->
                       [l_mgr EXCEPT !.networks = Without(@, LockNet),
                                     !.stats = Without(@, LockNet)]
                  [] OTHER ->
                       IF LockNet \in DOMAIN l_mgr.stats
                       THEN [l_mgr EXCEPT !.stats[LockNet] = Cardinality(l_mgr.networks[LockNet])]
                       ELSE l_mgr
          /\ IF op = "add_collection_to_network"
             THEN /\ l_tasks' = [l_tasks EXCEPT ![t].pc = "b_init"]
                  /\ UNCHANGED l_rw
             ELSE /\ l_tasks' = [l_tasks EXCEPT ![t].pc = "ret",
                                     ![BootId] = IF op = "join_network" /\ l_tasks[BootId].pc = "idle"
                                                 THEN [op |-> "bootstrap", pc |-> "connect", ok |-> TRUE]
                                                 ELSE @]
                  /\ l_rw' = DropGuards(l_rw, {"networks", "stats"}, t)
    /\ UNCHANGED <<l_mx, l_obs>>

\* broadcast_message line 260-262 and send_to_peer line 282-284: the flag is
\* read under a read guard that lives for the condition only; before
\* initialize the call returns the error (and the guards of its caller go).
StepCheckInit(t) ==
    /\ l_tasks[t].pc = "b_init"
    /\ Free(l_rw, "initialized", "r")
    /\ IF l_mgr.initialized
       THEN /\ l_tasks' = [l_tasks EXCEPT ![t].pc = "b_conns"]
            /\ UNCHANGED l_rw
       ELSE /\ l_tasks' = [l_tasks EXCEPT ![t].pc = "ret", ![t].ok = FALSE]
            /\ l_rw' = DropGuards(l_rw, Locks, t)
    /\ UNCHANGED <<l_mgr, l_mx, l_obs>>

\* broadcast_message line 265 and send_to_peer line 287: the read guard of
\* connections is taken and kept. With no connection, broadcast_message has
\* nothing to send and send_to_peer returns "peer not connected".
StepConnectionsRead(t) ==
    /\ l_tasks[t].pc = "b_conns"
    /\ Free(l_rw, "connections", "r")
    /\ IF LockPeer \in DOMAIN l_mgr.connections
       THEN /\ l_tasks' = [l_tasks EXCEPT ![t].pc = "m_lock"]
            /\ l_rw' = Acquire(l_rw, "connections", "r", t)
       ELSE /\ l_tasks' = [l_tasks EXCEPT ![t].pc = "ret",
                               ![t].ok = l_tasks[t].op # "send_to_peer"]
            /\ l_rw' = DropGuards(l_rw, Locks, t)
    /\ UNCHANGED <<l_mgr, l_mx, l_obs>>

\* line 272 and 290: the mutex of the stream is taken.
StepStreamLock(t) ==
    /\ l_tasks[t].pc = "m_lock"
    /\ MutexFree(l_mx)
    /\ l_mx' = t
    /\ l_tasks' = [l_tasks EXCEPT ![t].pc = "w1"]
    /\ UNCHANGED <<l_mgr, l_rw, l_obs>>

\* line 273 and 291, write_all: the socket takes a first part of the frame.
StepWriteFirst(t) ==
    /\ l_tasks[t].pc = "w1"
    /\ l_mgr' = [l_mgr EXCEPT !.connections[LockPeer] = Append(@, <<t, 1>>)]
    /\ l_tasks' = [l_tasks EXCEPT ![t].pc = "w2"]
    /\ UNCHANGED <<l_rw, l_mx, l_obs>>

\* write_all, the rest of the frame; the stream guard, the connections guard
\* and the guards of the caller go out of scope and the call returns.
StepWriteRest(t) ==
    /\ l_tasks[t].pc = "w2"
    /\ l_mgr' = [l_mgr EXCEPT !.connections[LockPeer] = Append(@, <<t, 2>>)]
    /\ l_mx' = NoHolder
    /\ l_rw' = DropGuards(l_rw, Locks, t)
    /\ l_tasks' = [l_tasks EXCEPT ![t].pc = "ret"]
    /\ UNCHANGED l_obs

\* shutdown, line 317: the flag is cleared under a guard of one statement.
StepShutdownFlag(t) ==
    /\ l_tasks[t].pc = "sh_flag"
    /\ Free(l_rw, "initialized", "w")
    /\ l_mgr' = [l_mgr EXCEPT !.initialized = FALSE]
    /\ l_tasks' = [l_tasks EXCEPT ![t].pc = "sh_take"]
    /\ UNCHANGED <<l_rw, l_mx, l_obs>>

\* shutdown, line 319-321: the listener is taken.
StepShutdownTake(t) ==
    /\ l_tasks[t].pc = "sh_take"
    /\ Free(l_rw, "listener", "w")
    /\ l_mgr' = [l_mgr EXCEPT !.listener = FALSE]
    /\ l_tasks' = [l_tasks EXCEPT ![t].pc = "sh_conns"]
    /\ UNCHANGED <<l_rw, l_mx, l_obs>>

\* shutdown, line 323-326: the connection table is cleared under its write
\* guard and the call returns.
StepShutdownClear(t) ==
    /\ l_tasks[t].pc = "sh_conns"
    /\ Free(l_rw, "connections", "w")
    /\ l_mgr' = [l_mgr EXCEPT !.connections = EmptyMap]
    /\ l_tasks' = [l_tasks EXCEPT ![t].pc = "ret"]
    /\ UNCHANGED <<l_rw, l_mx, l_obs>>

\* The spawned task, line 171-178: connect and the greeting, then read_line;
\* no lock is held.
StepBootIo ==
    /\ l_tasks[BootId].pc \in {"connect", "read"}
    /\ l_tasks' = [l_tasks EXCEPT ![BootId].pc =
                      IF l_tasks[BootId].pc = "connect" THEN "read" ELSE "c_lock"]
    /\ UNCHANGED <<l_mgr, l_rw, l_mx, l_obs>>

\* The spawned task, line 182: the write guard of connections.
StepBootConnections ==
    /\ l_tasks[BootId].pc = "c_lock"
    /\ Free(l_rw, "connections", "w")
    /\ l_rw' = Acquire(l_rw, "connections", "w", BootId)
    /\ l_tasks' = [l_tasks EXCEPT ![BootId].pc = "p_lock"]
    /\ UNCHANGED <<l_mgr, l_mx, l_obs>>

\* The spawned task, line 183-193: the write guard of peers, the two inserts
\* (a new stream with a free mutex), and both guards are dropped.
StepBootPeers ==
    /\ l_tasks[BootId].pc = "p_lock"
    /\ Free(l_rw, "peers", "w")
    /\ l_mgr' = [l_mgr EXCEPT !.connections = With(@, LockPeer, <<>>),
                              !.peers = @ \cup {LockPeer}]
    /\ l_rw' = DropGuards(l_rw, {"connections", "peers"}, BootId)
    /\ l_tasks' = [l_tasks EXCEPT ![BootId].pc = "ret"]
    /\ UNCHANGED <<l_mx, l_obs>>

\* get_network_collections, line 251-257: try_read fails while a writer
\* holds networks, and the call answers with an empty list.
get_network_collections(mgr, rw, n) ==
    IF rw["networks"].w # NoHolder THEN {}
    ELSE IF n \in DOMAIN mgr.networks THEN mgr.networks[n] ELSE {}

\* get_network_stats, line 304-306: None when try_read fails or the network
\* has no entry.
get_network_stats(mgr, rw, n) ==
    IF rw["stats"].w # NoHolder THEN {}
    ELSE IF n \in DOMAIN mgr.stats THEN {mgr.stats[n]} ELSE {}

\* get_networks, line 308-310: the ids of the configurations, none when
\* try_read fails.
get_networks(mgr, rw) ==
    IF rw["networks"].w # NoHolder THEN {} ELSE DOMAIN mgr.networks

\* A caller that runs beside the tasks asks one of the accessors.
LockAccess(op) ==
    /\ \E t \in LockTaskIds : l_tasks[t].pc # "idle"
    /\ l_obs' = [op |-> op,
                 locked |-> l_rw[IF op = "get_network_stats" THEN "stats" ELSE "networks"].w # NoHolder,
                 res |-> CASE op = "get_network_collections" ->
                                get_network_collections(l_mgr, l_rw, LockNet)
                           [] op = "get_network_stats" ->
                                get_network_stats(l_mgr, l_rw, LockNet)
                           [] OTHER -> get_networks(l_mgr, l_rw)]
    /\ UNCHANGED <<l_mgr, l_rw, l_mx, l_tasks>>

\* One step of a caller's task.
CallerStep(t) ==
    \/ StepInitLock(t)
    \/ StepInitStore(t)
    \/ StepInitSet(t)
    \/ StepNetworksLock(t)
    \/ StepStatsLock(t)
    \/ StepCheckInit(t)
    \/ StepConnectionsRead(t)
    \/ StepStreamLock(t)
    \/ StepWriteFirst(t)
    \/ StepWriteRest(t)
    \/ StepShutdownFlag(t)
    \/ StepShutdownTake(t)
    \/ StepShutdownClear(t)

\* One step of the spawned task.
BootStep ==
    \/ StepBootIo
    \/ StepBootConnections
    \/ StepBootPeers

LockNext ==
    \/ \E t \in Callers, op \in LockOps :
          LockCall(t, op) /\ UNCHANGED <<mvars, svars, cvars, rvars, kvars, stvars, nvars, dvars, uvars>>
    \/ \E t \in Callers :
          CallerStep(t) /\ UNCHANGED <<mvars, svars, cvars, rvars, kvars, stvars, nvars, dvars, uvars>>
    \/ BootStep /\ UNCHANGED <<mvars, svars, cvars, rvars, kvars, stvars, nvars, dvars, uvars>>
    \/ \E op \in {"get_network_collections", "get_network_stats", "get_networks"} :
          LockAccess(op) /\ UNCHANGED <<mvars, svars, cvars, rvars, kvars, stvars, nvars, dvars, uvars>>

SpecLocks == LockInit /\ [][LockNext]_vars

\* The tokio runtime polls every task that can go on, and the socket answers
\* every connect, read and write.
SpecLocksFair ==
    /\ LockInit
    /\ [][LockNext]_vars
    /\ \A t \in Callers :
          WF_vars(CallerStep(t) /\ UNCHANGED <<mvars, svars, cvars, rvars, kvars, stvars, nvars, dvars, uvars>>)
    /\ WF_vars(BootStep /\ UNCHANGED <<mvars, svars, cvars, rvars, kvars, stvars, nvars, dvars, uvars>>)

\* ------------------------------------------------ resolver claims

\* The fields of a payload; an absent payload has none.
PayloadOf(d) == IF d.payload.some THEN d.payload.val ELSE EmptyMap

Merged == mpc = "merged"

\* C1: for two versions whose vectors compare Concurrent, the peer holding a
\* that merges b and the peer holding b that merges a end with the same
\* payload and the same vector; in the literal case both end with payload
\* {k1:42, k2:99} and vector {a-1:2, b-1:2}.
C1_ConcurrentMergeConverges ==
    (Merged /\ compare(docA.vector, docB.vector) = "Concurrent") =>
        /\ atA.payload = atB.payload
        /\ atA.vector = atB.vector
        /\ (docA = LitA /\ docB = LitB) =>
              /\ atA.payload = Some([k1 |-> 42, k2 |-> 99])
              /\ atB.payload = Some([k1 |-> 42, k2 |-> 99])
              /\ atA.vector = [x \in {"a-1", "b-1"} |-> 2]
              /\ atB.vector = [x \in {"a-1", "b-1"} |-> 2]

\* C2: merge_documents(local, remote) is exactly remote when the vectors
\* compare Equal or Before and exactly local when they compare After; and
\* whenever local.vector dominates remote.vector (remote happens before or
\* equals local) the merged document equals local in all fields.
C2_CausalSelection ==
    Merged =>
        LET c == compare(docA.vector, docB.vector)
        IN  /\ c \in {"Equal", "Before"} => atA = docB
            /\ c = "After" => atA = docA
            /\ happens_before(docB.vector, docA.vector) => atA = docA

\* C3: under Concurrent vectors every field of remote.payload has remote's
\* value in the merged payload, every field only in local.payload keeps
\* local's value (whatever payloads are present or absent), the merged vector
\* is merge(local.vector, remote.vector), the timestamp is the maximum and
\* entryType is local's.
C3_FieldLevelMerge ==
    (Merged /\ compare(docA.vector, docB.vector) = "Concurrent") =>
        /\ \A k \in DOMAIN PayloadOf(docB) :
              k \in DOMAIN PayloadOf(atA) /\ PayloadOf(atA)[k] = PayloadOf(docB)[k]
        /\ \A k \in DOMAIN PayloadOf(docA) \ DOMAIN PayloadOf(docB) :
              k \in DOMAIN PayloadOf(atA) /\ PayloadOf(atA)[k] = PayloadOf(docA)[k]
        /\ atA.vector = merge(docA.vector, docB.vector)
        /\ atA.timestamp = Max(docA.timestamp, docB.timestamp)
        /\ atA.entry_type = docA.entry_type

\* C4: if either input of merge_documents is deleted and its vector is not
\* dominated by the other input's vector, the merged result is deleted.
C4_TombstonePreserved ==
    Merged =>
        /\ (docA.deleted /\ ~happens_before(docA.vector, docB.vector)) => atA.deleted
        /\ (docB.deleted /\ ~happens_before(docB.vector, docA.vector)) => atA.deleted

\* C5: the vector of merge_documents(local, remote) dominates both inputs,
\* at either peer, whatever the comparison of the two vectors is.
C5_MergedVectorDominates ==
    Merged =>
        /\ happens_before(docA.vector, atA.vector)
        /\ happens_before(docB.vector, atA.vector)
        /\ happens_before(docA.vector, atB.vector)
        /\ happens_before(docB.vector, atB.vector)

\* A concurrent pair has been merged into a vector above both inputs.
C5_Witness ==
    /\ Merged
    /\ compare(docA.vector, docB.vector) = "Concurrent"
    /\ compare(docA.vector, atA.vector) = "Before"
    /\ compare(docB.vector, atA.vector) = "Before"

\* ------------------------------------------------ collection claims

IsOperation(e) == e.ev = "broadcast" /\ e.msg.msg_type = "Operation"

IsPersist(e, via) == e.ev = "persist" /\ e.via = via

\* A document version: one written to a peer's storage, or one carried in a
\* broadcast CRDTOperation.
IsVersion(e) == e.ev = "persist" \/ IsOperation(e)

VersionOf(e) == IF e.ev = "persist" THEN e.doc ELSE ToStorageMap(e.msg.payload.data.val)

\* The events of peer p that write or remove document id.
WritesOf(p, id) ==
    LET About(e) == e.ev \in {"persist", "remove"} /\ e.id = id
    IN  SelectSeq(history[p], About)

\* C6: any two versions of the same document id, stored at a peer or carried
\* in an emitted operation, whose vectors compare Equal have identical
\* content (every field but the wall-clock timestamp).
C6_CausalIdentity ==
    \A p \in Peers, q \in Peers :
        \A i \in DOMAIN history[p], j \in DOMAIN history[q] :
            (IsVersion(history[p][i]) /\ IsVersion(history[q][j])) =>
                LET v == VersionOf(history[p][i])
                    w == VersionOf(history[q][j])
                IN  (v["id"] = w["id"] /\ compare(v["vector"], w["vector"]) = "Equal")
                        => Without(v, "timestamp") = Without(w, "timestamp")

\* C7: every local write of peer p to a document advances the document's
\* vector at p: after one insert and k updates of the document by p its
\* stored vector is {p: k+1}, and after insert {id:d1, value:x} and update
\* {value:y} find returns the document with value y.
C7_MonotonicLocalWrites ==
    \A p \in Peers, id \in DocIds :
        LET w == WritesOf(p, id)
            f == find(p, id)
        IN  (/\ Len(w) >= 1
             /\ IsPersist(w[1], "insert")
             /\ \A i \in 2..Len(w) : IsPersist(w[i], "update")) =>
                /\ f.some
                /\ f.val["vector"] = (p :> Len(w))
                /\ Len(w) = 2 => f.val["payload"]["value"] = w[2].doc["value"]

\* C8: every insert that persists on a collection attached to network n is
\* followed by exactly one broadcast of an Operation message carrying the
\* Insert operation of that document on n, the persist coming first; an insert
\* on a detached collection, or one whose persist fails, broadcasts nothing.
C8_InsertBroadcasts ==
    \A p \in Peers :
        LET h == history[p]
        IN  /\ \A i \in DOMAIN h :
                  (IsPersist(h[i], "insert") /\ h[i].net.some) =>
                      /\ i + 1 <= Len(h)
                      /\ IsOperation(h[i + 1])
                      /\ h[i + 1].msg.network_id = h[i].net.val
                      /\ h[i + 1].msg.payload.op_type = "Insert"
                      /\ h[i + 1].msg.payload.collection = CollName
                      /\ h[i + 1].msg.payload.document_id = h[i].id
                      /\ ToStorageMap(h[i + 1].msg.payload.data.val) = h[i].doc
            /\ \A j \in DOMAIN h :
                  (IsOperation(h[j]) /\ h[j].msg.payload.op_type = "Insert") =>
                      /\ j > 1
                      /\ IsPersist(h[j - 1], "insert")
                      /\ h[j - 1].net.some

\* C9: every successful update and delete on a collection attached to a
\* network broadcasts one operation of kind Update (resp. Delete) for the
\* document on that network.
C9_UpdateDeleteBroadcast ==
    \A p \in Peers :
        LET h == history[p]
        IN  \A i \in DOMAIN h :
                /\ (IsPersist(h[i], "update") /\ h[i].net.some) =>
                      /\ i + 1 <= Len(h)
                      /\ IsOperation(h[i + 1])
                      /\ h[i + 1].msg.payload.op_type = "Update"
                      /\ h[i + 1].msg.payload.document_id = h[i].id
                /\ (h[i].ev = "remove" /\ h[i].net.some) =>
                      /\ i + 1 <= Len(h)
                      /\ IsOperation(h[i + 1])
                      /\ h[i + 1].msg.payload.op_type = "Delete"
                      /\ h[i + 1].msg.payload.document_id = h[i].id

\* Peer a has connected to the listener of the initialized peer b as its
\* bootstrap peer (task i), has attached its collection and has broadcast the
\* insert of document id.
Replicating(a, b, i, id) ==
    /\ a # b
    /\ initialized[a] /\ initialized[b] /\ listener[b]
    /\ i \in 1..Len(tasks)
    /\ tasks[i].owner = a /\ tasks[i].addr = b /\ tasks[i].pc = "read_line"
    /\ netId[a].some
    /\ \E k \in DOMAIN history[a] :
          /\ IsOperation(history[a][k])
          /\ history[a][k].msg.payload.document_id = id

\* The connection a-b is recorded and find on b returns the document with
\* vector {a: 1}.
Delivered(a, b, id) ==
    /\ b \in DOMAIN connections[a]
    /\ find(b, id).some
    /\ find(b, id).val["vector"] = (a :> 1)

\* C10: when peer a joins with the initialized peer b as bootstrap peer,
\* attaches a collection and inserts a document, the document eventually
\* reaches b: until it has, the handshake of a's connection can take a step.
C10_CausalReplication ==
    \A a \in Peers, b \in Peers, i \in 1..MaxTasks, id \in DocIds :
        (Replicating(a, b, i, id) /\ ~Delivered(a, b, id)) =>
            ENABLED (TaskConnect(i) \/ TaskReadLine(i))

\* Document id is visible at peer p: find returns it and it is no tombstone.
Visible(p, id) == find(p, id).some /\ "deleted" \notin DOMAIN find(p, id).val

\* C11: once a stored document was deleted through Collection.delete it is
\* kept as a tombstone whose vector is at least the deleted version's, find
\* shows no document, and re-inserts or arrivals of versions whose vectors
\* the tombstone dominates leave it invisible.
C11_DeletionLeavesTombstone ==
    \A p \in Peers, id \in DocIds :
        LET w == WritesOf(p, id)
        IN  \A i \in 2..Len(w) :
                (w[i].ev = "remove" /\ w[i - 1].ev = "persist") =>
                    LET tomb == w[i - 1].doc["vector"]
                    IN  /\ i = Len(w) =>
                              /\ id \in DOMAIN store[p]
                              /\ "deleted" \in DOMAIN store[p][id]
                              /\ happens_before(tomb, store[p][id]["vector"])
                        /\ (\A j \in (i + 1)..Len(w) :
                                /\ w[j].ev = "persist"
                                /\ happens_before(w[j].doc["vector"], tomb))
                              => ~Visible(p, id)

\* ------------------------------------------------ clock claims

ClockDone == cpc = "done"

\* C12: with an absent key read as 0, compare(v, v) is Equal; compare(v, w) is
\* one of Equal, Before, After, Concurrent; it is After exactly when
\* compare(w, v) is Before; it is Concurrent exactly when compare(w, v) is
\* Concurrent, exactly when some coordinate of v is greater and another is
\* less; clocks that differ only by explicit zero entries compare Equal.
C12_CompareLattice ==
    ClockDone =>
        LET v == cin.v
            w == cin.w
            greater == \E k \in Peers : Get(v, k) > Get(w, k)
            less == \E k \in Peers : Get(v, k) < Get(w, k)
        IN  /\ cout.cmp_vv = "Equal"
            /\ cout.cmp_vw \in {"Equal", "Before", "After", "Concurrent"}
            /\ (cout.cmp_vw = "After") <=> (cout.cmp_wv = "Before")
            /\ (cout.cmp_vw = "Concurrent") <=> (cout.cmp_wv = "Concurrent")
            /\ (cout.cmp_vw = "Concurrent") <=> (greater /\ less)
            /\ (\A k \in Peers : Get(v, k) = Get(w, k)) => cout.cmp_vw = "Equal"
            /\ cout.hb_vw <=> (cout.cmp_vw \in {"Before", "Equal"})

\* Two clocks over different key sets, one with an explicit zero, compared.
C12_Witness ==
    /\ ClockDone
    /\ cin.v # cin.w
    /\ DOMAIN cin.v # DOMAIN cin.w
    /\ cout.cmp_vw = "Equal"
    /\ \E k \in DOMAIN cin.w : cin.w[k] = 0

\* C13: merge(v, w) is the pointwise maximum over the union of the keys; merge
\* is associative, commutative and idempotent up to Equal; v and w both
\* happen before merge(v, w); merge(v, increment(v, p)) is Equal to
\* increment(v, p); v happens before increment(v, p) and not the reverse.
C13_MergeIsJoin ==
    ClockDone =>
        LET v == cin.v
            w == cin.w
        IN  /\ DOMAIN cout.m_vw = DOMAIN v \cup DOMAIN w
            /\ \A k \in DOMAIN cout.m_vw : cout.m_vw[k] = Max(Get(v, k), Get(w, k))
            /\ compare(cout.m_uv_w, cout.m_u_vw) = "Equal"
            /\ compare(cout.m_vw, cout.m_wv) = "Equal"
            /\ compare(cout.m_vv, v) = "Equal"
            /\ happens_before(v, cout.m_vw)
            /\ happens_before(w, cout.m_vw)
            /\ compare(cout.m_v_inc, cout.inc) = "Equal"
            /\ happens_before(v, cout.inc)
            /\ ~happens_before(cout.inc, v)

\* Concurrent clocks whose merge is neither of them, and an increment of a
\* counter that was already positive.
C13_Witness ==
    /\ ClockDone
    /\ cout.cmp_vw = "Concurrent"
    /\ cout.m_vw \notin {cin.v, cin.w}
    /\ Get(cin.v, cin.p) >= 1
    /\ cout.inc[cin.p] = Get(cin.v, cin.p) + 1

\* ------------------------------------------------ batch resolution claims

Range(seq) == {seq[i] : i \in DOMAIN seq}

ResolveDone == rpc = "done"

\* C14: resolve_conflicts returns at most one operation per document id,
\* every document id of the batch is represented, and the operation retained
\* for an id has the greatest timestamp of the batch's operations on that id.
C14_OnePerDocument ==
    ResolveDone =>
        /\ \A i \in DOMAIN rout.a, j \in DOMAIN rout.a :
              i # j => rout.a[i].document_id # rout.a[j].document_id
        /\ \A op \in Range(rin) : \E r \in Range(rout.a) : r.document_id = op.document_id
        /\ \A r \in Range(rout.a) :
              /\ r \in Range(rin)
              /\ \A op \in Range(rin) :
                    op.document_id = r.document_id => op.timestamp <= r.timestamp

\* C15: among operations on one document with equal timestamps the retained
\* one is not behind another by its vector, and resolve_conflicts returns the
\* same set of operations for every permutation of the batch.
C15_DeterministicTieBreak ==
    ResolveDone =>
        /\ \A r \in Range(rout.a), op \in Range(rin) :
              (op.document_id = r.document_id /\ op.timestamp = r.timestamp)
                  => compare(r.vector, op.vector) # "Before"
        /\ Range(rout.a) = Range(rout.b)

\* ------------------------------------------------ encryption manager claims

\* The key pair the manager has under key_id now: the cache entry, else the
\* master key of that id.
KeyUnder(key_id) ==
    IF key_id \in DOMAIN key_cache THEN Some(key_cache[key_id])
    ELSE IF master_key.some /\ master_key.val.id = key_id THEN master_key
    ELSE NoneKey

Usable(kp) == kp.status = "active" /\ ~(kp.expires_at.some /\ ktime > kp.expires_at.val)

\* C18: decrypt_data on an envelope that encrypt_data returned for plaintext p
\* under key k returns exactly p whenever the manager still has that key pair
\* under k and it is active, whatever the key pair's material.
C18_EnvelopeRoundTrip ==
    kres.op = "decrypt_data" =>
        \A i \in issued :
            (/\ i.env = kres.env
             /\ KeyUnder(i.env.key_id) = Some(i.kp)
             /\ Usable(i.kp)) =>
                /\ kres.ok
                /\ kres.pt = i.p

RECURSIVE Readable(_, _)
Readable(c, m) ==
    \/ \E k \in DOMAIN m : is_sensitive_field(c, k) /\ m[k].kind # "envelope"
    \/ "payload" \in DOMAIN m /\ Readable(c, m["payload"])

\* C16: after a successful insert into a sensitive collection, through
\* Storage.insert or Collection.insert, no sensitive field of the collection
\* is readable in the stored file; every sensitive payload field is an
\* envelope with a sibling sentinel true, the other payload fields are stored
\* verbatim, and the file carries encrypted: true and the master key's id.
C16_SensitiveNeverPlaintext ==
    \A c \in StoreCollections :
        (is_encrypted_collection(c) /\ sorig[c].some) =>
            LET stored == sfiles[c][sorig[c].doc["id"]]
                given == sorig[c].doc
            IN  /\ ~Readable(c, stored)
                /\ "payload" \in DOMAIN given =>
                      /\ "encrypted" \in DOMAIN stored /\ stored["encrypted"] = TRUE
                      /\ "encryption_key_id" \in DOMAIN stored
                      /\ stored["encryption_key_id"] = sorig[c].key.val.id
                      /\ \A k \in DOMAIN given["payload"] \ {"blob"} :
                            /\ k \in DOMAIN stored["payload"]
                            /\ IF is_sensitive_field(c, k)
                               THEN /\ stored["payload"][k].kind = "envelope"
                                    /\ Sentinel(k) \in DOMAIN stored["payload"]
                                    /\ stored["payload"][Sentinel(k)] = JTrue
                               ELSE stored["payload"][k] = given["payload"][k]

\* C17: with the master key that was set when a document was inserted into
\* a sensitive collection, Storage.find succeeds and returns a document
\* equal to the inserted one.
C17_SensitiveRoundTrip ==
    (/\ slast.op = "find"
     /\ is_encrypted_collection(slast.collection)
     /\ sorig[slast.collection].some
     /\ sorig[slast.collection].doc["id"] = slast.id
     /\ master_key = sorig[slast.collection].key)
        => /\ slast.ok
           /\ slast.doc = Some(sorig[slast.collection].doc)

\* C20: in a collection that is not sensitive, Storage.find after a
\* successful Storage.insert returns a document equal to the inserted one,
\* whatever its fields are named.
C20_PlainRoundTrip ==
    (/\ slast.op = "find"
     /\ ~is_encrypted_collection(slast.collection)
     /\ sorig[slast.collection].some
     /\ sorig[slast.collection].doc["id"] = slast.id
     /\ sorig[slast.collection].via = "storage")
        => /\ slast.ok
           /\ slast.doc = Some(sorig[slast.collection].doc)

\* ------------------------------------------------ storage contract claims

\* What Storage.find(c, id) returns in the current state.
Found(c, id) == storage_find(Manager, ktime, sfiles[c], sblobs[c], c, id)

\* The stored document of id in c references the blob file of id.
ReferencesBlob(c, id) ==
    /\ id \in DOMAIN sfiles[c]
    /\ "payload" \in DOMAIN sfiles[c][id]
    /\ "blobRef" \in DOMAIN sfiles[c][id]["payload"]
    /\ sfiles[c][id]["payload"]["blobRef"] = BlobPath(c, id)

\* C21: a stored MEMORY document holds blobRef and no blob, and its blob file
\* exists; find after the insert of a MEMORY document with a blob returns the
\* blob with its original content and no blobRef; and a blob file of an id
\* exists only if the stored document of that id references it.
C21_BlobExternalized ==
    /\ \A c \in StoreCollections : \A id \in DOMAIN sfiles[c] :
          ("entryType" \in DOMAIN sfiles[c][id] /\ sfiles[c][id]["entryType"] = "MEMORY")
              => /\ "blob" \notin DOMAIN sfiles[c][id]["payload"]
                 /\ "blobRef" \in DOMAIN sfiles[c][id]["payload"] => id \in DOMAIN sblobs[c]
    /\ (/\ slast.op = "find"
        /\ slast.ok
        /\ sorig[slast.collection].some
        /\ sorig[slast.collection].doc["id"] = slast.id
        /\ HasMemoryBlob(sorig[slast.collection].doc))
           => /\ slast.doc.some
              /\ "blobRef" \notin DOMAIN slast.doc.val["payload"]
              /\ "blob" \in DOMAIN slast.doc.val["payload"]
              /\ slast.doc.val["payload"]["blob"] = sorig[slast.collection].doc["payload"]["blob"]
    /\ \A c \in StoreCollections : \A id \in DOMAIN sblobs[c] : ReferencesBlob(c, id)

\* C22: no document file is ever written under the empty id, and an insert
\* of a document whose id is missing or empty does not succeed.
C22_InsertRequiresId ==
    /\ \A c \in StoreCollections : "" \notin DOMAIN sfiles[c]
    /\ (slast.op = "insert" /\ slast.id = "") => ~slast.ok

\* C23: an insert of a collection that returns an error leaves the stored
\* documents and the blob files of the peer as they were before the call.
C23_FailedInsertLeavesNothing ==
    [][(last'.op = "insert" /\ ~last'.ok) => (store' = store /\ blobs' = blobs)]_vars

\* C24: Storage.update on an absent id fails with a not-found error and
\* changes nothing; on an existing id it succeeds, find(id) then returns the
\* previous document with the top-level fields of the patch overwritten, and
\* find returns for every other id what it returned before.
C24_UpdateFrame ==
    [][\A c \in StoreCollections, id \in StoreIds :
          (slast'.op = "update" /\ slast'.collection = c /\ slast'.id = id) =>
              /\ (Found(c, id).ok /\ ~Found(c, id).doc.some)
                    => /\ ~slast'.ok
                       /\ slast'.err = "document not found"
                       /\ sfiles' = sfiles
                       /\ sblobs' = sblobs
              /\ (Found(c, id).ok /\ Found(c, id).doc.some)
                    => /\ slast'.ok
                       /\ Found(c, id)'.doc = Some(Patch(Found(c, id).doc.val, slast'.patch))
                       /\ \A x \in StoreIds \ {id} : Found(c, x)' = Found(c, x)]_vars

\* C25: Storage.delete succeeds; afterwards find returns None for the id and
\* no blob file of the id remains; when the id had neither a document nor a
\* blob nothing changes; every other document and blob is unchanged.
C25_DeleteFrame ==
    [][\A c \in StoreCollections, id \in StoreIds :
          (slast'.op = "delete" /\ slast'.collection = c /\ slast'.id = id) =>
              /\ slast'.ok
              /\ Found(c, id)'.ok /\ ~Found(c, id)'.doc.some
              /\ id \notin DOMAIN sblobs'[c]
              /\ (id \notin DOMAIN sfiles[c] /\ id \notin DOMAIN sblobs[c])
                    => (sfiles' = sfiles /\ sblobs' = sblobs)
              /\ Without(sfiles'[c], id) = Without(sfiles[c], id)
              /\ Without(sblobs'[c], id) = Without(sblobs[c], id)
              /\ \A o \in StoreCollections \ {c} : sfiles'[o] = sfiles[o] /\ sblobs'[o] = sblobs[o]]_vars

\* C26: find_all succeeds and returns exactly the documents find returns for
\* the stored ids (the named ones; the empty id is C22's matter), leaving out
\* those on which find fails.
C26_FindAllMatchesFind ==
    slast.op = "find_all" =>
        LET c == slast.collection
            ids == {id \in DOMAIN sfiles[c] : id # "" /\ Found(c, id).ok}
        IN  /\ slast.ok
            /\ slast.docs = {Found(c, id).doc.val : id \in ids}

\* ------------------------------------------------ network manager claims

\* The configuration a caller hands to create_network for the network n with
\* the participating collections colls.
CfgOf(n, colls) ==
    [network_id |-> n, collections |-> colls, bootstrap_peers |-> <<>>,
     private_by_default |-> TRUE]

\* C28: create_network on an unknown id registers the configuration it was
\* given, collections included, with zero stats; on a registered id it leaves
\* the configuration and the stats as they are; join_network on a registered
\* id leaves them as they are too.
C28_CreateNetworkRegisters ==
    [][\A p \in Peers, n \in NetIds :
          /\ \A colls \in CfgCollections :
                CreateNetwork(p, n, colls) =>
                    /\ last'.ok
                    /\ IF n \in DOMAIN networks[p]
                       THEN networks'[p] = networks[p] /\ stats'[p] = stats[p]
                       ELSE /\ n \in DOMAIN networks'[p]
                            /\ networks'[p][n] = CfgOf(n, colls)
                            /\ stats'[p][n] = ZeroStats(n)
          /\ \A b \in BootLists :
                (JoinNetwork(p, n, b) /\ n \in DOMAIN networks[p]) =>
                    (networks'[p] = networks[p] /\ stats'[p] = stats[p])]_vars

\* What the remote end of each connection has received.
Received(conns) == [q \in DOMAIN conns |-> conns[q].rx]

\* The message as one line of JSON followed by a newline.
Line(msg) == <<to_string(msg), "\n">>

C30_BestEffortBroadcast ==
    [][\A msg \in NetMsgs, closing \in SUBSET RemotePeers :
          (nm_initialized /\ nm_last'.op = "broadcast_message" /\ NmBroadcast(msg, closing)) =>
              /\ nm_last'.ok
              /\ DOMAIN nm_connections' = DOMAIN nm_connections
              /\ \A q \in DOMAIN nm_connections :
                    nm_connections'[q].rx =
                        IF nm_connections[q].open /\ q \notin closing
                        THEN nm_connections[q].rx \o Line(msg)
                        ELSE nm_connections[q].rx]_vars

\* Three peers are connected and one of them has closed its socket: the
\* broadcast has succeeded and the two others have the line.
C30_Witness ==
    /\ nm_last.op = "broadcast_message"
    /\ nm_last.ok
    /\ DOMAIN nm_connections = RemotePeers
    /\ \E q \in RemotePeers :
          /\ ~nm_connections[q].open
          /\ nm_connections[q].rx = <<>>
          /\ \A o \in RemotePeers \ {q} :
                nm_connections[o].open /\ nm_connections[o].rx = Line(nm_last.msg)

\* ------------------------------------------------ peers and collections

\* The peer ids an endpoint can announce in a line that starts with KNIRV:.
Announced == {reply.rest : reply \in {x \in ExtReplies : x.prefix = "KNIRV:"}}

C40_AttachAllOrNothing ==
    [][\A p \in Peers :
          /\ \A n \in NetIds :
                (AttachToNetwork(p, n) /\ ~last'.ok) =>
                    /\ netId'[p] = netId[p]
                    /\ syncNet'[p] = syncNet[p]
                    /\ networks'[p] = networks[p]
                    /\ stats'[p] = stats[p]
          /\ (/\ DetachFromNetwork(p)
              /\ last.op = "attach_to_network"
              /\ last.peer = p
              /\ last.ok
              /\ netId[p].some
              /\ netId[p].val \in DOMAIN networks[p]) =>
                 (CollName \in networks'[p][netId[p].val].collections) = last.had]_vars

\* No initialize() and no shutdown() call is in progress.
Quiet ==
    /\ nm_shutdown.pc = "idle"
    /\ \A i \in InitCalls : nm_calls[i].pc \in {"new", "done", "panicked"}

\* C31: the flag is never seen cleared by a shutdown while the listener or
\* a connection of the manager is still there; when no call is in progress
\* an initialized manager has its listener; and once a shutdown has returned
\* the connection table is empty and stays so (no join_network is called
\* in these runs).
C31_ShutdownAtomicFinal ==
    /\ (nm_shutdown.n > 0 /\ ~nm_initialized) =>
           (nm_listener = NoListener /\ nm_connections = EmptyMap)
    /\ (Quiet /\ nm_initialized) => nm_listener # NoListener
    /\ (nm_shutdown.n > 0 /\ nm_shutdown.pc = "idle") => nm_connections = EmptyMap

\* C39: when no initialize and no shutdown is in progress, an initialized
\* manager has a listener and a manager left uninitialized by a shutdown has
\* none; and no initialize() call panics on the listener it has just stored.
C39_ListenerInvariant ==
    /\ Quiet =>
          /\ nm_initialized => nm_listener # NoListener
          /\ (~nm_initialized /\ nm_shutdown.n > 0) => nm_listener = NoListener
    /\ \A i \in InitCalls : nm_calls[i].pc # "panicked"

\* The callers whose collection(name) call has returned a handle.
Returned == {i \in DbCallers : db_calls[i].pc = "done" /\ db_calls[i].ok}

\* C37: at most one collection is ever constructed for a name; the handle a
\* call returns is the collection of the name it asked for; two calls return
\* the same handle exactly when they asked for the same name, so the network
\* an attach recorded through one handle is the one seen through the other.
C37_CollectionRegistry ==
    /\ \A a, b \in 1..Len(db_made) : db_made[a].name = db_made[b].name => a = b
    /\ \A i \in Returned :
          /\ db_calls[i].handle \in 1..Len(db_made)
          /\ db_made[db_calls[i].handle].name = db_calls[i].name
    /\ \A i, j \in Returned :
          /\ (db_calls[i].name = db_calls[j].name) <=> (db_calls[i].handle = db_calls[j].handle)
          /\ db_calls[i].name = db_calls[j].name =>
                db_made[db_calls[i].handle].network_id = db_made[db_calls[j].handle].network_id

\* Two callers hold the handle of one name and a third that of another, and
\* an attach has been made through one of them.
C37_Witness ==
    \E i, j, k \in Returned :
        /\ i # j
        /\ db_calls[i].name = db_calls[j].name
        /\ db_calls[k].name # db_calls[i].name
        /\ db_made[db_calls[i].handle].network_id.some
        /\ Len(db_made) = 2

RECURSIVE PatchAll(_, _)
\* The document with every patch of the set applied (the patches write
\* different fields, so the order does not matter).
PatchAll(doc, patches) ==
    IF patches = {} THEN doc
    ELSE LET q == CHOOSE x \in patches : TRUE
         IN  PatchAll(Patch(doc, q), patches \ {q})

\* C32: when two update calls with patches to different top-level fields
\* have both returned with success, the stored document has the fields of
\* both patches; and a find returns the document as it is after some of the
\* updates were applied whole, never a mix of a half-finished one.
C32_AtomicPerDocument ==
    /\ \A i, j \in Updaters :
          (/\ i # j
           /\ u_calls[i].pc = "done" /\ u_calls[i].ok
           /\ u_calls[j].pc = "done" /\ u_calls[j].ok
           /\ DOMAIN u_calls[i].patch \cap DOMAIN u_calls[j].patch = {}) =>
              \E d \in {StorageFind(u_files, u_blobs, "mem", RaceDoc["id"])} :
                  /\ d.some
                  /\ \A k \in DOMAIN u_calls[i].patch : d.val[k] = u_calls[i].patch[k]
                  /\ \A k \in DOMAIN u_calls[j].patch : d.val[k] = u_calls[j].patch[k]
    /\ u_last.some => u_last.val \in {PatchAll(RaceDoc, ps) : ps \in SUBSET RacePatches}

\* ------------------------------------------- claims on the manager's locks

\* What the remote peer has received on the connection.
Rx == IF LockPeer \in DOMAIN l_mgr.connections THEN l_mgr.connections[LockPeer] ELSE <<>>

\* C33: on a single connection the bytes of two frames never interleave.
\* Every first part of a frame on the wire is followed at once by the rest of
\* the same frame, every rest follows its own first part, and a frame whose
\* rest is still to come is the one of the task that holds the stream's mutex.
C33_FrameAtomicity ==
    \A i \in 1..Len(Rx) :
        /\ Rx[i][2] = 1 =>
              IF i = Len(Rx)
              THEN l_mx = Rx[i][1] /\ l_tasks[Rx[i][1]].pc = "w2"
              ELSE Rx[i + 1] = <<Rx[i][1], 2>>
        /\ Rx[i][2] = 2 => i > 1 /\ Rx[i - 1] = <<Rx[i][1], 1>>

\* Two callers sent on the same connection while it stayed registered, one a
\* broadcast and one a send to the peer, and both frames arrived whole.
C33_Witness ==
    /\ Len(Rx) = 4
    /\ Rx[1][1] # Rx[3][1]
    /\ \E t \in Callers : l_tasks[t].op = "send_to_peer" /\ l_tasks[t].pc = "ret"
    /\ \E t \in Callers : l_tasks[t].op # "send_to_peer" /\ l_tasks[t].pc = "ret"

\* C34: no lock of the manager's maps is held by a task that is suspended on
\* the socket (connect, read_line, the write of a frame) or, inside
\* add_collection_to_network, on the broadcast it awaits.
C34_NoLockAcrossSuspension ==
    \A t \in LockTaskIds :
        \/ l_tasks[t].pc \in IoPcs
        \/ l_tasks[t].op = "add_collection_to_network" /\ l_tasks[t].pc \in {"b_init", "b_conns", "m_lock"}
        => HeldBy(l_rw, t) = {}

\* C36: an accessor that runs beside other calls answers with the state of
\* the registry: get_network_collections and get_networks are not empty and
\* get_network_stats is not None for a network that is registered (with a
\* collection attached, for the first) when the accessor runs.
C36_AccessorsFaithful ==
    [][l_obs' # l_obs /\ LockNet \in DOMAIN l_mgr.networks =>
          /\ l_obs'.op = "get_networks" => l_obs'.res # {}
          /\ l_obs'.op = "get_network_collections" /\ l_mgr.networks[LockNet] # {} =>
                l_obs'.res # {}
          /\ l_obs'.op = "get_network_stats" /\ LockNet \in DOMAIN l_mgr.stats =>
                l_obs'.res # {}]_vars

\* A task that has been called and has neither returned nor unwound.
Running(t) == l_tasks[t].pc \notin {"idle", "ret", "panic"}

\* The task cannot go on: the lock it waits for is held by another task, or
\* it waits to read a lock that another task is queued to write (the locks
\* hand themselves out in arrival order).
Stuck(t) ==
    \E l \in {Need(l_tasks[t])[1]}, m \in {Need(l_tasks[t])[2]} :
        \/ m = "m" /\ l_mx # NoHolder
        \/ m \in {"r", "w"} /\ ~Free(l_rw, l, m)
        \/ /\ m = "r"
           /\ \E u \in LockTaskIds \ {t} : Running(u) /\ Need(l_tasks[u]) = <<l, "w">>
           /\ l_rw[l].r # {}

====
